---------------------------- MODULE Spec2Model ----------------------------
(***************************************************************************)
(* CVSS v3.1 Base/Temporal scoring engine of audit_companion/cvss.py:      *)
(* CVSSMetrics, CVSSCalculator.calculate_base_score,                       *)
(* calculate_temporal_score, parse_vector_string, generate_vector_string,  *)
(* score_to_severity.                                                      *)
(*                                                                         *)
(* Python floats are IEEE-754 binary64.  Every float operation of the      *)
(* source is modelled as the exact operation on the operands followed by   *)
(* rounding to 53 significant bits, ties to even.  Naturals wider than a   *)
(* machine word are kept as little-endian sequences of 15-bit limbs.       *)
(***************************************************************************)
EXTENDS Integers, Sequences, FiniteSets, TLC

(***************************************************************************)
(* Multi-limb naturals.  <<>> is 0; the last limb of a number is nonzero.  *)
(* The arithmetic is written as functions, so that every operand is a      *)
(* value by the time it is used.                                           *)
(***************************************************************************)
Radix == 2^15

Limbs == Seq(Nat)

BitLenInt[n \in Nat] == IF n = 0 THEN 0 ELSE 1 + BitLenInt[n \div 2]

LimbBits == BitLenInt[Radix - 1]

Limb(a, i) == IF i >= 1 /\ i <= Len(a) THEN a[i] ELSE 0

NNorm[a \in Limbs] ==
  IF a = <<>> THEN a
  ELSE IF a[Len(a)] = 0 THEN NNorm[SubSeq(a, 1, Len(a) - 1)] ELSE a

NFromInt[n \in Nat] ==
  IF n = 0 THEN <<>> ELSE <<n % Radix>> \o NFromInt[n \div Radix]

NToInt[a \in Limbs] == IF a = <<>> THEN 0 ELSE a[1] + Radix * NToInt[Tail(a)]

\* the limbs of a + b + c from limb i on
NAddC[a \in Limbs, b \in Limbs, i \in Nat, c \in Nat] ==
  IF i > Len(a) /\ i > Len(b)
  THEN (IF c = 0 THEN <<>> ELSE <<c>>)
  ELSE <<(Limb(a, i) + Limb(b, i) + c) % Radix>>
       \o NAddC[a, b, i + 1, (Limb(a, i) + Limb(b, i) + c) \div Radix]

NAdd[a \in Limbs, b \in Limbs] == NAddC[a, b, 1, 0]

\* the limbs of a - b - c from limb i on, for a >= b
NSubC[a \in Limbs, b \in Limbs, i \in Nat, c \in Nat] ==
  IF i > Len(a) THEN <<>>
  ELSE IF a[i] - Limb(b, i) - c < 0
       THEN <<a[i] - Limb(b, i) - c + Radix>> \o NSubC[a, b, i + 1, 1]
       ELSE <<a[i] - Limb(b, i) - c>> \o NSubC[a, b, i + 1, 0]

NSub[a \in Limbs, b \in Limbs] == NNorm[NSubC[a, b, 1, 0]]

\* -1, 0, 1 as a < b, a = b, a > b, looking at limbs i, i - 1, ..., 1
NCmpAt[a \in Limbs, b \in Limbs, i \in Nat] ==
  IF i = 0 THEN 0
  ELSE IF a[i] < b[i] THEN -1
  ELSE IF a[i] > b[i] THEN 1
  ELSE NCmpAt[a, b, i - 1]

NCmp[a \in Limbs, b \in Limbs] ==
  IF Len(a) < Len(b) THEN -1
  ELSE IF Len(a) > Len(b) THEN 1
  ELSE NCmpAt[a, b, Len(a)]

\* the limbs of a * k + c from limb i on, for a limb k
NMulSmallC[a \in Limbs, k \in Nat, i \in Nat, c \in Nat] ==
  IF i > Len(a) THEN (IF c = 0 THEN <<>> ELSE <<c>>)
  ELSE <<(a[i] * k + c) % Radix>>
       \o NMulSmallC[a, k, i + 1, (a[i] * k + c) \div Radix]

NMulSmall[a \in Limbs, k \in Nat] ==
  IF k = 0 THEN <<>> ELSE NMulSmallC[a, k, 1, 0]

\* a * Radix^k
NShiftLimbs[a \in Limbs, k \in Nat] ==
  IF a = <<>> THEN a ELSE [i \in 1..k |-> 0] \o a

\* a * (b[j] + b[j+1] * Radix + ...) * Radix^(j-1)
NMulAt[a \in Limbs, b \in Limbs, j \in Nat] ==
  IF j > Len(b) THEN <<>>
  ELSE NAdd[NShiftLimbs[NMulSmall[a, b[j]], j - 1], NMulAt[a, b, j + 1]]

\* The product of two four-limb numbers, column by column: each limb product
\* is split into its low and high limb so that no column sum exceeds a word.
NMul4[a \in Limbs, b \in Limbs] ==
  LET L(i, j) == (a[i] * b[j]) % Radix
      H(i, j) == (a[i] * b[j]) \div Radix
      t1 == L(1, 1)
      t2 == L(1, 2) + L(2, 1) + H(1, 1)
      t3 == L(1, 3) + L(2, 2) + L(3, 1) + H(1, 2) + H(2, 1)
      t4 == L(1, 4) + L(2, 3) + L(3, 2) + L(4, 1) + H(1, 3) + H(2, 2) + H(3, 1)
      t5 == L(2, 4) + L(3, 3) + L(4, 2) + H(1, 4) + H(2, 3) + H(3, 2) + H(4, 1)
      t6 == L(3, 4) + L(4, 3) + H(2, 4) + H(3, 3) + H(4, 2)
      t7 == L(4, 4) + H(3, 4) + H(4, 3)
      t8 == H(4, 4)
  IN  NAddC[<<t1, t2, t3, t4, t5, t6, t7, t8>>, <<>>, 1, 0]

NMul[a \in Limbs, b \in Limbs] ==
  IF a = <<>> \/ b = <<>> THEN <<>>
  ELSE IF Len(a) = 4 /\ Len(b) = 4 THEN NNorm[NMul4[a, b]]
  ELSE NMulAt[a, b, 1]

\* Long division by a limb d, limbs i, i - 1, ..., 1 of a still to come, r the
\* remainder so far and q the quotient limbs found so far.
NDivSmallAt[a \in Limbs, d \in Nat, i \in Nat, r \in Nat, q \in Limbs] ==
  IF i = 0 THEN [q |-> NNorm[q], r |-> r]
  ELSE NDivSmallAt[a, d, i - 1, (r * Radix + a[i]) % d,
                   <<(r * Radix + a[i]) \div d>> \o q]

\* quotient q and remainder r of a by a limb d
NDivMod[a \in Limbs, d \in Nat] == NDivSmallAt[a, d, Len(a), 0, <<>>]

\* a * 2^k
NShl[a \in Limbs, k \in Nat] ==
  LET d == k \div LimbBits
      b == k % LimbBits
  IN  NNorm[[i \in 1..(Len(a) + d + 1) |->
               IF i <= d THEN 0
               ELSE ((Limb(a, i - d) * 2^b) % Radix)
                    + (Limb(a, i - d - 1) \div 2^(LimbBits - b))]]

\* a \div 2^k
NShr[a \in Limbs, k \in Nat] ==
  LET d == k \div LimbBits
      b == k % LimbBits
  IN  IF d >= Len(a) THEN <<>>
      ELSE NNorm[[i \in 1..(Len(a) - d) |->
                    (a[i + d] \div 2^b)
                    + (Limb(a, i + d + 1) % 2^b) * 2^(LimbBits - b)]]

\* bit j of a, bit 0 being the lowest
NBit(a, j) == (Limb(a, j \div LimbBits + 1) \div 2^(j % LimbBits)) % 2

\* whether one of the j lowest bits of a is set
NLowBits(a, j) ==
  \/ \E i \in 1..(j \div LimbBits) : Limb(a, i) # 0
  \/ Limb(a, j \div LimbBits + 1) % 2^(j % LimbBits) # 0

NBitLen[a \in Limbs] ==
  IF a = <<>> THEN 0 ELSE LimbBits * (Len(a) - 1) + BitLenInt[a[Len(a)]]

NIsOdd(a) == a # <<>> /\ a[1] % 2 = 1

NPow[a \in Limbs, n \in Nat] ==
  IF n = 0 THEN <<1>>
  ELSE IF n % 2 = 0 THEN NMul[NPow[a, n \div 2], NPow[a, n \div 2]]
  ELSE NMul[a, NPow[a, n - 1]]

(***************************************************************************)
(* Python float: IEEE-754 binary64, round to nearest, ties to even.  A     *)
(* value is s * m * 2^e with s in {1, -1} and m either 0 (<<>>) or exactly *)
(* MantBits bits long.  The scores here stay far inside the normal range,  *)
(* so subnormals, infinities and the sign of zero are not represented.     *)
(***************************************************************************)
MantBits == 53

Float == [s : {1, -1}, m : Limbs, e : Int]

FZero == [s |-> 1, m |-> <<>>, e |-> 0]

\* m rounded to MantBits bits, for a number of n > MantBits bits followed by a
\* nonzero fraction if sticky: the quotient by 2^(n - MantBits), one more if
\* the remainder is above the half, or is the half and the quotient is odd.
NRoundBits[m \in Limbs, n \in Nat, sticky \in BOOLEAN] ==
  IF /\ NBit(m, n - MantBits - 1) = 1
     /\ \/ sticky
        \/ NLowBits(m, n - MantBits - 1)
        \/ NBit(m, n - MantBits) = 1
  THEN NAdd[NShr[m, n - MantBits], <<1>>]
  ELSE NShr[m, n - MantBits]

\* the float of sign s, mantissa q of MantBits or MantBits + 1 bits, exponent e
FPack[s \in {1, -1}, q \in Limbs, e \in Int] ==
  IF NBitLen[q] > MantBits
  THEN [s |-> s, m |-> NShr[q, 1], e |-> e + 1]
  ELSE [s |-> s, m |-> q, e |-> e]

\* The binary64 nearest to s * (m + f) * 2^e, where 0 < f < 1 if sticky and
\* f = 0 otherwise.
FRound[s \in {1, -1}, m \in Limbs, e \in Int, sticky \in BOOLEAN] ==
  IF m = <<>> THEN FZero
  ELSE IF NBitLen[m] <= MantBits
       THEN [s |-> s, m |-> NShl[m, MantBits - NBitLen[m]],
             e |-> e - (MantBits - NBitLen[m])]
       ELSE FPack[s, NRoundBits[m, NBitLen[m], sticky], e + NBitLen[m] - MantBits]

Abs(n) == IF n < 0 THEN 0 - n ELSE n

Sign(n) == IF n < 0 THEN -1 ELSE 1

FromInt[n \in Int] == FRound[Sign(n), NFromInt[Abs(n)], 0, FALSE]

\* num / den for integers num and 0 < den < Radix: Python's int / int, and the
\* value of a decimal literal such as 7.52 = 752 / 100 (both correctly rounded).
\* the outcomes of NDivMod
QuotRem == [q : Limbs, r : Nat]

FDivQ[s \in {1, -1}, d \in QuotRem] == FRound[s, d.q, -80, d.r # 0]

FDivInt[num \in Int, den \in Nat] ==
  FDivQ[Sign(num), NDivMod[NShl[NFromInt[Abs(num)], 80], den]]

FNeg[x \in Float] == IF x.m = <<>> THEN x ELSE [x EXCEPT !.s = 0 - x.s]

FMul[x \in Float, y \in Float] ==
  IF x.m = <<>> \/ y.m = <<>> THEN FZero
  ELSE FRound[x.s * y.s, NMul[x.m, y.m], x.e + y.e, FALSE]

\* s * (a - b) * 2^e for a > b, or -s * (b - a) * 2^e for a < b
FDiff[s \in {1, -1}, a \in Limbs, b \in Limbs, e \in Int, c \in {-1, 0, 1}] ==
  IF c = 0 THEN FZero
  ELSE IF c > 0 THEN FRound[s, NSub[a, b], e, FALSE]
  ELSE FRound[0 - s, NSub[b, a], e, FALSE]

\* x + y, both brought to the common exponent e
FAddAt[x \in Float, y \in Float, a \in Limbs, b \in Limbs, e \in Int] ==
  IF x.s = y.s THEN FRound[x.s, NAdd[a, b], e, FALSE]
  ELSE FDiff[x.s, a, b, e, NCmp[a, b]]

MinInt(a, b) == IF a < b THEN a ELSE b

FAdd[x \in Float, y \in Float] ==
  IF x.m = <<>> THEN y
  ELSE IF y.m = <<>> THEN x
  ELSE FAddAt[x, y, NShl[x.m, x.e - MinInt(x.e, y.e)],
              NShl[y.m, y.e - MinInt(x.e, y.e)], MinInt(x.e, y.e)]

FSub[x \in Float, y \in Float] == FAdd[x, FNeg[y]]

\* -1, 0, 1 as x < y, x = y, x > y
FCmp[x \in Float, y \in Float] ==
  IF x.m = <<>> THEN (IF y.m = <<>> THEN 0 ELSE 0 - y.s)
  ELSE IF y.m = <<>> THEN x.s
  ELSE IF x.s # y.s THEN x.s
  ELSE IF x.e # y.e THEN (IF x.e > y.e THEN x.s ELSE 0 - x.s)
  ELSE x.s * NCmp[x.m, y.m]

FLt(x, y) == FCmp[x, y] < 0

FLe(x, y) == FCmp[x, y] <= 0

\* Bounds of a^n kept to PowBits significant bits: [m, e] with m * 2^e <= a^n
\* (hi = FALSE), or a^n <= m * 2^e (hi = TRUE).
PowBits == MantBits + 22

Bound == [m : Limbs, e : Int]

NTruncAt[m \in Limbs, e \in Int, hi \in BOOLEAN, n \in Nat] ==
  IF n <= PowBits THEN [m |-> m, e |-> e]
  ELSE [m |-> IF hi THEN NAdd[NShr[m, n - PowBits], <<1>>]
              ELSE NShr[m, n - PowBits],
        e |-> e + (n - PowBits)]

NTrunc[m \in Limbs, e \in Int, hi \in BOOLEAN] == NTruncAt[m, e, hi, NBitLen[m]]

NSquare[h \in Bound, hi \in BOOLEAN] ==
  NTrunc[NMul[h.m, h.m], 2 * h.e, hi]

NTimes[a \in Limbs, p \in Bound, hi \in BOOLEAN] ==
  NTrunc[NMul[a, p.m], p.e, hi]

NPowBound[a \in Limbs, n \in Nat, hi \in BOOLEAN] ==
  IF n = 0 THEN [m |-> <<1>>, e |-> 0]
  ELSE IF n % 2 = 0 THEN NSquare[NPowBound[a, n \div 2, hi], hi]
  ELSE NTimes[a, NPowBound[a, n - 1, hi], hi]

FPowChoose[x \in Float, n \in Nat, rl \in Float, rh \in Float] ==
  IF rl = rh THEN rl
  ELSE FRound[IF n % 2 = 1 THEN x.s ELSE 1, NPow[x.m, n], x.e * n, FALSE]

FPowBounds[x \in Float, n \in Nat, s \in {1, -1}, lo \in Bound, hi \in Bound] ==
  FPowChoose[x, n, FRound[s, lo.m, lo.e + x.e * n, FALSE],
                   FRound[s, hi.m, hi.e + x.e * n, FALSE]]

\* x ** n for a float x and an integer n >= 0: C pow(x, n), taken as correctly
\* rounded.  The lower and the upper bound of the exact power round to the same
\* binary64 unless the power lies within 2^-16 ulp of a rounding boundary;
\* only then is the exact power formed.
FPow[x \in Float, n \in Nat] ==
  IF x.m = <<>> THEN (IF n = 0 THEN FromInt[1] ELSE FZero)
  ELSE FPowBounds[x, n, IF n % 2 = 1 THEN x.s ELSE 1,
                  NPowBound[x.m, n, FALSE], NPowBound[x.m, n, TRUE]]

\* Python round(x) of a float: the nearest integer, ties to even
PyRound[x \in Float] ==
  IF x.m = <<>> THEN 0
  ELSE IF x.e >= 0 THEN x.s * NToInt[NShl[x.m, x.e]]
  ELSE IF /\ NBit(x.m, 0 - x.e - 1) = 1
          /\ (NLowBits(x.m, 0 - x.e - 1) \/ NBit(x.m, 0 - x.e) = 1)
       THEN x.s * (NToInt[NShr[x.m, 0 - x.e]] + 1)
       ELSE x.s * NToInt[NShr[x.m, 0 - x.e]]

(***************************************************************************)
(* Python values.  A str is the sequence of its characters; None is a      *)
(* value that is no str.  Truthy is Python's truth test of an              *)
(* Optional[str]: None and the empty string are false.                     *)
(***************************************************************************)
None == <<"None">>

Truthy(v) == v # None /\ v # <<>>

\* The text str.format puts in place of {v}
Format(v) == IF v = None THEN <<"N", "o", "n", "e">> ELSE v

\* The outcome of a call: a returned float, or the exception raised.
Return(x) == [exc |-> "", val |-> x]

Raise(name) == [exc |-> name, val |-> FZero]

(***************************************************************************)
(* class CVSSMetrics: the freshly constructed vector.                      *)
(***************************************************************************)
CVSSMetrics ==
  [attack_vector |-> <<"N">>,
   attack_complexity |-> <<"H">>,
   privileges_required |-> <<"H">>,
   user_interaction |-> <<"R">>,
   scope |-> <<"U">>,
   confidentiality |-> <<"N">>,
   integrity |-> <<"N">>,
   availability |-> <<"N">>,
   exploit_code_maturity |-> None,
   remediation_level |-> None,
   report_confidence |-> None,
   confidentiality_req |-> None,
   integrity_req |-> None,
   availability_req |-> None,
   modified_attack_vector |-> None,
   modified_attack_complexity |-> None,
   modified_privileges_required |-> None,
   modified_user_interaction |-> None,
   modified_scope |-> None,
   modified_confidentiality |-> None,
   modified_integrity |-> None,
   modified_availability |-> None]

(***************************************************************************)
(* CVSSCalculator: the weight tables, keyed by str.                        *)
(***************************************************************************)
_weights ==
  [AV  |-> (<<"N">> :> FDivInt[85, 100]) @@ (<<"A">> :> FDivInt[62, 100]) @@
           (<<"L">> :> FDivInt[55, 100]) @@ (<<"P">> :> FDivInt[2, 10]),
   AC  |-> (<<"H">> :> FDivInt[44, 100]) @@ (<<"L">> :> FDivInt[77, 100]),
   PR  |-> (<<"U">> :> ((<<"N">> :> FDivInt[85, 100]) @@
                        (<<"L">> :> FDivInt[62, 100]) @@
                        (<<"H">> :> FDivInt[27, 100]))) @@
           (<<"C">> :> ((<<"N">> :> FDivInt[85, 100]) @@
                        (<<"L">> :> FDivInt[68, 100]) @@
                        (<<"H">> :> FDivInt[5, 10]))),
   UI  |-> (<<"N">> :> FDivInt[85, 100]) @@ (<<"R">> :> FDivInt[62, 100]),
   S   |-> (<<"U">> :> FromInt[0]) @@ (<<"C">> :> FromInt[1]),
   CIA |-> (<<"N">> :> FromInt[0]) @@ (<<"L">> :> FDivInt[22, 100]) @@
           (<<"H">> :> FDivInt[56, 100])]

\* A variant in which a high exploit code maturity raises the score
_temporal_weights_Raising ==
  [E  |-> (<<"X">> :> FromInt[1]) @@ (<<"H">> :> FDivInt[105, 100]) @@
          (<<"F">> :> FDivInt[97, 100]) @@ (<<"P">> :> FDivInt[94, 100]) @@
          (<<"U">> :> FDivInt[91, 100]),
   RL |-> (<<"X">> :> FromInt[1]) @@ (<<"U">> :> FromInt[1]) @@
          (<<"W">> :> FDivInt[97, 100]) @@ (<<"T">> :> FDivInt[96, 100]) @@
          (<<"O">> :> FDivInt[95, 100]),
   RC |-> (<<"X">> :> FromInt[1]) @@ (<<"C">> :> FromInt[1]) @@
          (<<"R">> :> FDivInt[96, 100]) @@ (<<"U">> :> FDivInt[92, 100])]

_temporal_weights ==
  [E  |-> (<<"X">> :> FromInt[1]) @@ (<<"H">> :> FromInt[1]) @@
          (<<"F">> :> FDivInt[97, 100]) @@ (<<"P">> :> FDivInt[94, 100]) @@
          (<<"U">> :> FDivInt[91, 100]),
   RL |-> (<<"X">> :> FromInt[1]) @@ (<<"U">> :> FromInt[1]) @@
          (<<"W">> :> FDivInt[97, 100]) @@ (<<"T">> :> FDivInt[96, 100]) @@
          (<<"O">> :> FDivInt[95, 100]),
   RC |-> (<<"X">> :> FromInt[1]) @@ (<<"C">> :> FromInt[1]) @@
          (<<"R">> :> FDivInt[96, 100]) @@ (<<"U">> :> FDivInt[92, 100])]

\* The option codes offered for each base metric
_metric_options ==
  [AV |-> {<<"N">>, <<"A">>, <<"L">>, <<"P">>},
   AC |-> {<<"L">>, <<"H">>},
   PR |-> {<<"N">>, <<"L">>, <<"H">>},
   UI |-> {<<"N">>, <<"R">>},
   S  |-> {<<"U">>, <<"C">>},
   C  |-> {<<"N">>, <<"L">>, <<"H">>},
   I  |-> {<<"N">>, <<"L">>, <<"H">>},
   A  |-> {<<"N">>, <<"L">>, <<"H">>}]

\* dict.get(key, default)
Get(d, key, default) == IF key \in DOMAIN d THEN d[key] ELSE default

\* The float literals of the scoring functions
Lit_6_42 == FDivInt[642, 100]

Lit_7_52 == FDivInt[752, 100]

Lit_0_029 == FDivInt[29, 1000]

Lit_3_25 == FDivInt[325, 100]

Lit_0_02 == FDivInt[2, 100]

Lit_8_22 == FDivInt[822, 100]

Lit_0_44 == FDivInt[44, 100]

Lit_0_18 == FDivInt[18, 100]

Lit_0_1 == FDivInt[1, 10]

Lit_3_9 == FDivInt[39, 10]

Lit_4_0 == FDivInt[40, 10]

Lit_6_9 == FDivInt[69, 10]

Lit_7_0 == FDivInt[70, 10]

Lit_8_9 == FDivInt[89, 10]

One == FromInt[1]

Ten == FromInt[10]

(***************************************************************************)
(* The scoring functions.  d[key] raises KeyError when key is no key of d. *)
(***************************************************************************)
\* iss_base = 1 - ((1 - c_weight) * (1 - i_weight) * (1 - a_weight))
IssBase(c_weight, i_weight, a_weight) ==
  FSub[One, FMul[FMul[FSub[One, c_weight], FSub[One, i_weight]],
                 FSub[One, a_weight]]]

\* 7.52 * (iss_base - 0.029) - 3.25 * (iss_base - 0.02) ** 15
IssChanged(iss_base) ==
  FSub[FMul[Lit_7_52, FSub[iss_base, Lit_0_029]],
       FMul[Lit_3_25, FPow[FSub[iss_base, Lit_0_02], 15]]]

\* A variant that returns ISS_base itself under unchanged scope
_calculate_impact_subscore_Unscaled(metrics) ==
  IF \/ metrics.confidentiality \notin DOMAIN _weights.CIA
     \/ metrics.integrity \notin DOMAIN _weights.CIA
     \/ metrics.availability \notin DOMAIN _weights.CIA
  THEN Raise("KeyError")
  ELSE IF metrics.scope = <<"U">>
  THEN Return(IssBase(_weights.CIA[metrics.confidentiality],
                      _weights.CIA[metrics.integrity],
                      _weights.CIA[metrics.availability]))
  ELSE Return(IssChanged(IssBase(_weights.CIA[metrics.confidentiality],
                                 _weights.CIA[metrics.integrity],
                                 _weights.CIA[metrics.availability])))

\* A variant that clamps the changed-scope impact at zero
_calculate_impact_subscore_Clamped(metrics) ==
  IF \/ metrics.confidentiality \notin DOMAIN _weights.CIA
     \/ metrics.integrity \notin DOMAIN _weights.CIA
     \/ metrics.availability \notin DOMAIN _weights.CIA
  THEN Raise("KeyError")
  ELSE IF metrics.scope = <<"U">>
  THEN Return(FMul[Lit_6_42, IssBase(_weights.CIA[metrics.confidentiality],
                                     _weights.CIA[metrics.integrity],
                                     _weights.CIA[metrics.availability])])
  ELSE IF IssChanged(IssBase(_weights.CIA[metrics.confidentiality],
                             _weights.CIA[metrics.integrity],
                             _weights.CIA[metrics.availability])).s = -1
  THEN Return(FZero)
  ELSE Return(IssChanged(IssBase(_weights.CIA[metrics.confidentiality],
                                 _weights.CIA[metrics.integrity],
                                 _weights.CIA[metrics.availability])))

_calculate_impact_subscore(metrics) ==
  IF \/ metrics.confidentiality \notin DOMAIN _weights.CIA
     \/ metrics.integrity \notin DOMAIN _weights.CIA
     \/ metrics.availability \notin DOMAIN _weights.CIA
  THEN Raise("KeyError")
  ELSE IF metrics.scope = <<"U">>
  THEN Return(FMul[Lit_6_42, IssBase(_weights.CIA[metrics.confidentiality],
                                     _weights.CIA[metrics.integrity],
                                     _weights.CIA[metrics.availability])])
  ELSE Return(IssChanged(IssBase(_weights.CIA[metrics.confidentiality],
                                 _weights.CIA[metrics.integrity],
                                 _weights.CIA[metrics.availability])))

\* 8.22 * av_weight * ac_weight * pr_weight * ui_weight
\* A variant reading the privileges weight in the unchanged-scope table always
_calculate_exploitability_subscore_ScopeU(metrics) ==
  IF \/ metrics.attack_vector \notin DOMAIN _weights.AV
     \/ metrics.attack_complexity \notin DOMAIN _weights.AC
     \/ metrics.scope \notin DOMAIN _weights.PR
     \/ metrics.privileges_required \notin DOMAIN _weights.PR[metrics.scope]
     \/ metrics.user_interaction \notin DOMAIN _weights.UI
  THEN Raise("KeyError")
  ELSE Return(FMul[FMul[FMul[FMul[Lit_8_22,
                                  _weights.AV[metrics.attack_vector]],
                             _weights.AC[metrics.attack_complexity]],
                        _weights.PR[<<"U">>][metrics.privileges_required]],
                   _weights.UI[metrics.user_interaction]])

_calculate_exploitability_subscore(metrics) ==
  IF \/ metrics.attack_vector \notin DOMAIN _weights.AV
     \/ metrics.attack_complexity \notin DOMAIN _weights.AC
     \/ metrics.scope \notin DOMAIN _weights.PR
     \/ metrics.privileges_required \notin DOMAIN _weights.PR[metrics.scope]
     \/ metrics.user_interaction \notin DOMAIN _weights.UI
  THEN Raise("KeyError")
  ELSE Return(FMul[FMul[FMul[FMul[Lit_8_22,
                                  _weights.AV[metrics.attack_vector]],
                             _weights.AC[metrics.attack_complexity]],
                        _weights.PR[metrics.scope][metrics.privileges_required]],
                   _weights.UI[metrics.user_interaction]])

\* max in place of min
Min10_Max(x) == IF FLt(x, Ten) THEN Ten ELSE x

\* min(10, x)
Min10(x) == IF FLt(x, Ten) THEN x ELSE Ten

\* round(x) / 10: the scaling by 10 left out
RoundTenth_NoScale(x) == FDivInt[PyRound[x], 10]

\* round(x * 10) / 10
RoundTenth(x) == FDivInt[PyRound[FMul[x, Ten]], 10]

\* BaseScoreFrom with the early exit taken on impact_sub_score < 0 only
BaseScoreFrom_Lt(metrics, impact_sub_score, exploitability_sub_score) ==
  IF impact_sub_score.exc # "" THEN impact_sub_score
  ELSE IF exploitability_sub_score.exc # "" THEN exploitability_sub_score
  ELSE IF FLt(impact_sub_score.val, FZero) THEN Return(FZero)
  ELSE IF metrics.scope = <<"U">>
  THEN Return(RoundTenth(Min10(
         FAdd[FMul[Lit_7_52, impact_sub_score.val],
              FMul[Lit_0_44, exploitability_sub_score.val]])))
  ELSE Return(RoundTenth(Min10(
         FAdd[FMul[Lit_7_52, FAdd[impact_sub_score.val, Lit_0_18]],
              FMul[Lit_0_44, exploitability_sub_score.val]])))

\* BaseScoreFrom without the cap at 10
BaseScoreFrom_NoMin(metrics, impact_sub_score, exploitability_sub_score) ==
  IF impact_sub_score.exc # "" THEN impact_sub_score
  ELSE IF exploitability_sub_score.exc # "" THEN exploitability_sub_score
  ELSE IF FLe(impact_sub_score.val, FZero) THEN Return(FZero)
  ELSE IF metrics.scope = <<"U">>
  THEN Return(RoundTenth(
         FAdd[FMul[Lit_7_52, impact_sub_score.val],
              FMul[Lit_0_44, exploitability_sub_score.val]]))
  ELSE Return(RoundTenth(
         FAdd[FMul[Lit_7_52, FAdd[impact_sub_score.val, Lit_0_18]],
              FMul[Lit_0_44, exploitability_sub_score.val]]))

\* A variant that takes the early exit before the exploitability is computed
BaseScoreFrom_EarlyExit(metrics, impact_sub_score, exploitability_sub_score) ==
  IF impact_sub_score.exc # "" THEN impact_sub_score
  ELSE IF FLe(impact_sub_score.val, FZero) THEN Return(FZero)
  ELSE IF exploitability_sub_score.exc # "" THEN exploitability_sub_score
  ELSE IF metrics.scope = <<"U">>
  THEN Return(RoundTenth(Min10(
         FAdd[FMul[Lit_7_52, impact_sub_score.val],
              FMul[Lit_0_44, exploitability_sub_score.val]])))
  ELSE Return(RoundTenth(Min10(
         FAdd[FMul[Lit_7_52, FAdd[impact_sub_score.val, Lit_0_18]],
              FMul[Lit_0_44, exploitability_sub_score.val]])))

\* calculate_base_score once both sub-scores are at hand: the outcome of the
\* first call that raised, else the early exit or the rounded score.
BaseScoreFrom(metrics, impact_sub_score, exploitability_sub_score) ==
  IF impact_sub_score.exc # "" THEN impact_sub_score
  ELSE IF exploitability_sub_score.exc # "" THEN exploitability_sub_score
  ELSE IF FLe(impact_sub_score.val, FZero) THEN Return(FZero)
  ELSE IF metrics.scope = <<"U">>
  THEN Return(RoundTenth(Min10(
         FAdd[FMul[Lit_7_52, impact_sub_score.val],
              FMul[Lit_0_44, exploitability_sub_score.val]])))
  ELSE Return(RoundTenth(Min10(
         FAdd[FMul[Lit_7_52, FAdd[impact_sub_score.val, Lit_0_18]],
              FMul[Lit_0_44, exploitability_sub_score.val]])))

\* A variant that scores the modified confidentiality when it is set
calculate_base_score_Modified(metrics) ==
  IF metrics.modified_confidentiality = None
  THEN BaseScoreFrom(metrics, _calculate_impact_subscore(metrics),
                     _calculate_exploitability_subscore(metrics))
  ELSE BaseScoreFrom(
         metrics,
         _calculate_impact_subscore(
           [metrics EXCEPT !.confidentiality = metrics.modified_confidentiality]),
         _calculate_exploitability_subscore(metrics))

calculate_base_score(metrics) ==
  BaseScoreFrom(metrics, _calculate_impact_subscore(metrics),
                _calculate_exploitability_subscore(metrics))

\* calculate_temporal_score returning early only when all three are unset
calculate_temporal_score_And(base_score, metrics) ==
  IF /\ ~Truthy(metrics.exploit_code_maturity)
     /\ ~Truthy(metrics.remediation_level)
     /\ ~Truthy(metrics.report_confidence)
  THEN base_score
  ELSE RoundTenth(
         FMul[FMul[FMul[base_score,
                        Get(_temporal_weights.E, metrics.exploit_code_maturity, One)],
                   Get(_temporal_weights.RL, metrics.remediation_level, One)],
              Get(_temporal_weights.RC, metrics.report_confidence, One)])

\* calculate_temporal_score with the report confidence weight left out
calculate_temporal_score_NoRC(base_score, metrics) ==
  IF \/ ~Truthy(metrics.exploit_code_maturity)
     \/ ~Truthy(metrics.remediation_level)
     \/ ~Truthy(metrics.report_confidence)
  THEN base_score
  ELSE RoundTenth(
         FMul[FMul[base_score,
                   Get(_temporal_weights.E, metrics.exploit_code_maturity, One)],
              Get(_temporal_weights.RL, metrics.remediation_level, One)])

\* base_score * e_weight * rl_weight * rc_weight, each weight looked up with
\* .get(code, 1.0)
calculate_temporal_score(base_score, metrics) ==
  IF \/ ~Truthy(metrics.exploit_code_maturity)
     \/ ~Truthy(metrics.remediation_level)
     \/ ~Truthy(metrics.report_confidence)
  THEN base_score
  ELSE RoundTenth(
         FMul[FMul[FMul[base_score,
                        Get(_temporal_weights.E, metrics.exploit_code_maturity, One)],
                   Get(_temporal_weights.RL, metrics.remediation_level, One)],
              Get(_temporal_weights.RC, metrics.report_confidence, One)])

\* score_to_severity with the upper end of Low exclusive
score_to_severity_Lt(score) ==
  IF score = FZero THEN "None"
  ELSE IF FLe(Lit_0_1, score) /\ FLt(score, Lit_3_9) THEN "Low"
  ELSE IF FLe(Lit_4_0, score) /\ FLe(score, Lit_6_9) THEN "Medium"
  ELSE IF FLe(Lit_7_0, score) /\ FLe(score, Lit_8_9) THEN "High"
  ELSE "Critical"

\* A variant whose bands leave no gap: each band reaches up to the next one
score_to_severity_Gapless(score) ==
  IF score = FZero THEN "None"
  ELSE IF FLt(FZero, score) /\ FLt(score, Lit_4_0) THEN "Low"
  ELSE IF FLe(Lit_4_0, score) /\ FLt(score, Lit_7_0) THEN "Medium"
  ELSE IF FLe(Lit_7_0, score) /\ FLe(score, Lit_8_9) THEN "High"
  ELSE "Critical"

score_to_severity(score) ==
  IF score = FZero THEN "None"
  ELSE IF FLe(Lit_0_1, score) /\ FLe(score, Lit_3_9) THEN "Low"
  ELSE IF FLe(Lit_4_0, score) /\ FLe(score, Lit_6_9) THEN "Medium"
  ELSE IF FLe(Lit_7_0, score) /\ FLe(score, Lit_8_9) THEN "High"
  ELSE "Critical"

(***************************************************************************)
(* The vector codec, on strings as sequences of characters.                *)
(***************************************************************************)
\* A variant naming the version 3.0
Prefix_Version30 == <<"C", "V", "S", "S", ":", "3", ".", "0", "/">>

Prefix == <<"C", "V", "S", "S", ":", "3", ".", "1", "/">>

\* s.startswith(p)
StartsWith(s, p) == Len(s) >= Len(p) /\ SubSeq(s, 1, Len(p)) = p

\* s.split(sep) for a one-character sep: the pieces between the separators
Split(s, sep) ==
  LET cuts == {0, Len(s) + 1} \cup {i \in 1..Len(s) : s[i] = sep}
      \* the k-th cut, counting from 0
      Cut(k) == CHOOSE c \in cuts : Cardinality({d \in cuts : d < c}) = k
  IN  [k \in 1..(Cardinality(cuts) - 1) |->
         SubSeq(s, Cut(k - 1) + 1, Cut(k) - 1)]

\* sep.join(parts)
RECURSIVE Join(_, _)
Join(parts, sep) ==
  IF parts = <<>> THEN <<>>
  ELSE IF Len(parts) = 1 THEN parts[1]
  ELSE parts[1] \o <<sep>> \o Join(Tail(parts), sep)

\* One pass of the loop body of parse_vector_string
ParseComponent(metrics, component) ==
  IF component = <<>> THEN metrics
  ELSE LET parts == Split(component, ":")
       IN  IF Len(parts) # 2 THEN metrics
           ELSE LET metric == parts[1]
                    value  == parts[2]
                IN  IF metric = <<"A", "V">> THEN [metrics EXCEPT !.attack_vector = value]
                    ELSE IF metric = <<"A", "C">> THEN [metrics EXCEPT !.attack_complexity = value]
                    ELSE IF metric = <<"P", "R">> THEN [metrics EXCEPT !.privileges_required = value]
                    ELSE IF metric = <<"U", "I">> THEN [metrics EXCEPT !.user_interaction = value]
                    ELSE IF metric = <<"S">> THEN [metrics EXCEPT !.scope = value]
                    ELSE IF metric = <<"C">> THEN [metrics EXCEPT !.confidentiality = value]
                    ELSE IF metric = <<"I">> THEN [metrics EXCEPT !.integrity = value]
                    ELSE IF metric = <<"A">> THEN [metrics EXCEPT !.availability = value]
                    ELSE IF metric = <<"E">> THEN [metrics EXCEPT !.exploit_code_maturity = value]
                    ELSE IF metric = <<"R", "L">> THEN [metrics EXCEPT !.remediation_level = value]
                    ELSE IF metric = <<"R", "C">> THEN [metrics EXCEPT !.report_confidence = value]
                    ELSE metrics

\* The loop of parse_vector_string leaving at the first empty component
\* instead of going on to the next one
RECURSIVE ParseComponents_Break(_, _, _)
ParseComponents_Break(metrics, components, i) ==
  IF i > Len(components) THEN metrics
  ELSE IF components[i] = <<>> THEN metrics
  ELSE ParseComponents_Break(ParseComponent(metrics, components[i]),
                             components, i + 1)

\* The loop of parse_vector_string going through the components from the last
\* to the first
RECURSIVE ParseComponents_Reversed(_, _, _)
ParseComponents_Reversed(metrics, components, i) ==
  IF i > Len(components) THEN metrics
  ELSE ParseComponent(ParseComponents_Reversed(metrics, components, i + 1),
                      components[i])

\* The loop of parse_vector_string over components[i..]
RECURSIVE ParseComponents(_, _, _)
ParseComponents(metrics, components, i) ==
  IF i > Len(components) THEN metrics
  ELSE ParseComponents(ParseComponent(metrics, components[i]), components, i + 1)

\* vector_string[9:] whether or not the prefix is there
StripPrefix_Always(vector_string) ==
  SubSeq(vector_string, Len(Prefix) + 1, Len(vector_string))

\* vector_string[9:], or vector_string itself when it lacks the prefix
StripPrefix(vector_string) ==
  IF StartsWith(vector_string, Prefix)
  THEN SubSeq(vector_string, Len(Prefix) + 1, Len(vector_string))
  ELSE vector_string

\* parse_vector_string with the loop starting at the second component
parse_vector_string_Skip(vector_string) ==
  ParseComponents(CVSSMetrics, Split(StripPrefix(vector_string), "/"), 2)

parse_vector_string(vector_string) ==
  ParseComponents(CVSSMetrics, Split(StripPrefix(vector_string), "/"), 1)

\* generate_vector_string writing the temporal tokens only when all three
\* metrics are set
generate_vector_string_AllOrNone(metrics) ==
  Prefix \o Join(
    << <<"A", "V", ":">> \o Format(metrics.attack_vector),
       <<"A", "C", ":">> \o Format(metrics.attack_complexity),
       <<"P", "R", ":">> \o Format(metrics.privileges_required),
       <<"U", "I", ":">> \o Format(metrics.user_interaction),
       <<"S", ":">> \o Format(metrics.scope),
       <<"C", ":">> \o Format(metrics.confidentiality),
       <<"I", ":">> \o Format(metrics.integrity),
       <<"A", ":">> \o Format(metrics.availability) >>
    \o (IF /\ Truthy(metrics.exploit_code_maturity)
           /\ Truthy(metrics.remediation_level)
           /\ Truthy(metrics.report_confidence)
        THEN << <<"E", ":">> \o metrics.exploit_code_maturity,
                <<"R", "L", ":">> \o metrics.remediation_level,
                <<"R", "C", ":">> \o metrics.report_confidence >>
        ELSE <<>>), "/")

generate_vector_string(metrics) ==
  LET base_parts ==
        << <<"A", "V", ":">> \o Format(metrics.attack_vector),
           <<"A", "C", ":">> \o Format(metrics.attack_complexity),
           <<"P", "R", ":">> \o Format(metrics.privileges_required),
           <<"U", "I", ":">> \o Format(metrics.user_interaction),
           <<"S", ":">> \o Format(metrics.scope),
           <<"C", ":">> \o Format(metrics.confidentiality),
           <<"I", ":">> \o Format(metrics.integrity),
           <<"A", ":">> \o Format(metrics.availability) >>
      with_e ==
        IF Truthy(metrics.exploit_code_maturity)
        THEN Append(base_parts, <<"E", ":">> \o metrics.exploit_code_maturity)
        ELSE base_parts
      with_rl ==
        IF Truthy(metrics.remediation_level)
        THEN Append(with_e, <<"R", "L", ":">> \o metrics.remediation_level)
        ELSE with_e
      vector_parts ==
        IF Truthy(metrics.report_confidence)
        THEN Append(with_rl, <<"R", "C", ":">> \o metrics.report_confidence)
        ELSE with_rl
  IN  Prefix \o Join(vector_parts, "/")

(***************************************************************************)
(* The state: a vector held by a caller, and what the engine returned for  *)
(* it.  called is the set of engine operations that have run.              *)
(* vector_string is the string at hand, None while there is none; result   *)
(* is what interactive_calculator returned.                                *)
(***************************************************************************)
VARIABLES metrics, base_score, temporal_score, severity, vector_string, parsed,
          called, impact_sub_score, exploitability_sub_score, result, asked,
          threads, heap, tables

vars == <<metrics, base_score, temporal_score, severity, vector_string, parsed,
          called, impact_sub_score, exploitability_sub_score, result, asked,
          threads, heap, tables>>

\* No call has returned yet.
NotCalled == [exc |-> "NotCalled", val |-> FZero]

\* interactive_calculator has not returned yet.
NoResult ==
  [exc |-> "NotCalled", score |-> FZero, vector |-> <<>>, severity |-> "",
   metrics |-> CVSSMetrics]

\* Scores with one decimal run from 0.0 to MaxTenths / 10.
MaxTenths == 100

\* The classifier is also given scores with two decimals, from
\* -SeverityMargin / 100 to MaxTenths / 10 + SeverityMargin / 100.
SeverityMargin == 20

\* Every vector whose eight base metrics hold codes of their tables and whose
\* other fields are unset.
ValidBaseVectors ==
  {[CVSSMetrics EXCEPT !.attack_vector = av, !.attack_complexity = ac,
                       !.privileges_required = pr, !.user_interaction = ui,
                       !.scope = sc, !.confidentiality = c, !.integrity = i,
                       !.availability = a] :
     av \in DOMAIN _weights.AV, ac \in DOMAIN _weights.AC,
     pr \in DOMAIN _weights.PR[<<"U">>], ui \in DOMAIN _weights.UI,
     sc \in DOMAIN _weights.S, c \in DOMAIN _weights.CIA,
     i \in DOMAIN _weights.CIA, a \in DOMAIN _weights.CIA}

\* Every setting of the three temporal metrics, each unset or a code of its table.
TemporalSettings ==
  {[CVSSMetrics EXCEPT !.exploit_code_maturity = e, !.remediation_level = rl,
                       !.report_confidence = rc] :
     e  \in DOMAIN _temporal_weights.E \cup {None},
     rl \in DOMAIN _temporal_weights.RL \cup {None},
     rc \in DOMAIN _temporal_weights.RC \cup {None}}

\* The vectors with all three temporal metrics set to codes of their tables.
AllTemporalSet ==
  {v \in TemporalSettings : /\ v.exploit_code_maturity # None
                            /\ v.remediation_level # None
                            /\ v.report_confidence # None}

\* A sample of the valid base vectors: every attack vector, scope and impact
\* setting.
BaseSample ==
  {v \in ValidBaseVectors : /\ v.attack_complexity = <<"L">>
                            /\ v.privileges_required = <<"N">>
                            /\ v.user_interaction = <<"N">>}

\* The vectors given to the codec: every valid base vector without temporal
\* metrics, and every sampled base vector with every full temporal setting.
CodecVectors ==
  ValidBaseVectors \cup
  {[b EXCEPT !.exploit_code_maturity = t.exploit_code_maturity,
             !.remediation_level = t.remediation_level,
             !.report_confidence = t.report_confidence] :
     b \in BaseSample, t \in AllTemporalSet}

\* Base metrics as a caller may set them: codes of the tables, a code of no
\* table, and None.
ProbeBase ==
  {[CVSSMetrics EXCEPT !.attack_vector = av, !.scope = sc,
                       !.confidentiality = c] :
     av \in {<<"N">>, <<"P">>, <<"Z">>}, sc \in {<<"U">>, <<"C">>},
     c \in {<<"N">>, <<"H">>, <<"Z">>, None}}

\* Temporal metrics each set or not, the first also to the empty string and
\* to a code of no table.
ProbeTemporal ==
  {[CVSSMetrics EXCEPT !.exploit_code_maturity = e, !.remediation_level = rl,
                       !.report_confidence = rc] :
     e \in {None, <<>>, <<"F">>, <<"Z">>}, rl \in {None, <<"O">>},
     rc \in {None, <<"R">>}}

\* Environmental metrics: none set, the modified scope alone, all of them.
ProbeEnvironmental ==
  {CVSSMetrics,
   [CVSSMetrics EXCEPT !.modified_scope = <<"C">>],
   [CVSSMetrics EXCEPT !.confidentiality_req = <<"H">>,
                       !.integrity_req = <<"M">>,
                       !.availability_req = <<"L">>,
                       !.modified_attack_vector = <<"P">>,
                       !.modified_attack_complexity = <<"L">>,
                       !.modified_privileges_required = <<"N">>,
                       !.modified_user_interaction = <<"N">>,
                       !.modified_scope = <<"C">>,
                       !.modified_confidentiality = <<"H">>,
                       !.modified_integrity = <<"H">>,
                       !.modified_availability = <<"H">>]}

\* v with the temporal metrics of t and the environmental metrics of e
WithTemporal(v, t) ==
  [v EXCEPT !.exploit_code_maturity = t.exploit_code_maturity,
            !.remediation_level = t.remediation_level,
            !.report_confidence = t.report_confidence]

WithEnvironmental(v, e) ==
  [v EXCEPT !.confidentiality_req = e.confidentiality_req,
            !.integrity_req = e.integrity_req,
            !.availability_req = e.availability_req,
            !.modified_attack_vector = e.modified_attack_vector,
            !.modified_attack_complexity = e.modified_attack_complexity,
            !.modified_privileges_required = e.modified_privileges_required,
            !.modified_user_interaction = e.modified_user_interaction,
            !.modified_scope = e.modified_scope,
            !.modified_confidentiality = e.modified_confidentiality,
            !.modified_integrity = e.modified_integrity,
            !.modified_availability = e.modified_availability]

\* The vectors a caller may hold: CVSSMetrics accepts any value in any field.
ProbeVectors ==
  {WithEnvironmental(WithTemporal(b, t), e) :
     b \in ProbeBase, t \in ProbeTemporal, e \in ProbeEnvironmental}

\* Base vectors with any of the eight metrics holding a code of no table, the
\* last also None
LookupVectors ==
  {[CVSSMetrics EXCEPT !.attack_vector = av, !.attack_complexity = ac,
                       !.privileges_required = pr, !.user_interaction = ui,
                       !.scope = sc, !.confidentiality = c, !.integrity = i,
                       !.availability = a] :
     av \in {<<"N">>, <<"Z">>}, ac \in {<<"L">>, <<"Z">>},
     pr \in {<<"H">>, <<"Z">>}, ui \in {<<"N">>, <<"Z">>},
     sc \in {<<"U">>, <<"C">>, <<"Z">>}, c \in {<<"N">>, <<"H">>, <<"Z">>},
     i \in {<<"N">>, <<"Z">>}, a \in {<<"N">>, <<"Z">>, None}}

\* Strings given to the decoder are made of at most MaxTokens tokens.
MaxTokens == 3

\* Tokens well formed and not: known and unknown keys, codes in and out of
\* the tables, an empty value, no colon, two colons, the empty token, and the
\* version tokens "CVSS:3.1" and "CVSS:3.0".
ProbeTokens ==
  {<<"A", "V", ":", "L">>, <<"A", "V", ":", "Z">>, <<"S", ":", "C">>,
   <<"X", "X", ":", "1">>, <<>>, <<"A", "V">>, <<"A", ":", "B", ":", "C">>,
   <<"E", ":", "F">>, <<"R", "C", ":">>,
   <<"C", "V", "S", "S", ":", "3", ".", "1">>,
   <<"C", "V", "S", "S", ":", "3", ".", "0">>}

\* The tokens joined by "/", with and without the "CVSS:3.1/" prefix
ParseInputs ==
  UNION {{Join(ts, "/"), Prefix \o Join(ts, "/")} :
           ts \in UNION {[1..n -> ProbeTokens] : n \in 0..MaxTokens}}

\* The float k / 10, for the scores with one decimal
Tenth == [k \in 0..(MaxTenths + 1) |-> FDivInt[k, 10]]

\* The callers that may run the engine at the same time
Threads == {1, 2}

\* A caller that has not called yet
NoCall == [op |-> "", pc |-> "idle"]

\* The class attributes every call reads
ClassTables == [_weights |-> _weights, _temporal_weights |-> _temporal_weights]

\* Nothing has been computed.
Fresh ==
  /\ temporal_score = FZero
  /\ severity = ""
  /\ parsed = CVSSMetrics
  /\ called = {}
  /\ impact_sub_score = NotCalled
  /\ exploitability_sub_score = NotCalled
  /\ result = NoResult
  /\ asked = <<>>
  /\ threads = [t \in Threads |-> NoCall]
  /\ heap = <<>>
  /\ tables = ClassTables

Idle ==
  /\ vector_string = None
  /\ Fresh

CalculateImpactSubscore ==
  /\ "_calculate_impact_subscore" \notin called
  /\ impact_sub_score' = _calculate_impact_subscore(metrics)
  /\ called' = called \cup {"_calculate_impact_subscore"}
  /\ UNCHANGED <<metrics, base_score, temporal_score, severity, vector_string,
                 parsed, exploitability_sub_score, result,
                 asked, threads, heap, tables>>

CalculateExploitabilitySubscore ==
  /\ "_calculate_exploitability_subscore" \notin called
  /\ exploitability_sub_score' = _calculate_exploitability_subscore(metrics)
  /\ called' = called \cup {"_calculate_exploitability_subscore"}
  /\ UNCHANGED <<metrics, base_score, temporal_score, severity, vector_string,
                 parsed, impact_sub_score, result, asked, threads, heap, tables>>

\* A variant that writes the default codes back into the vector it scores
CalculateBaseScore_WriteBack ==
  /\ "calculate_base_score" \notin called
  /\ base_score' = calculate_base_score(metrics)
  /\ called' = called \cup {"calculate_base_score"}
  /\ metrics' = [metrics EXCEPT !.exploit_code_maturity =
                                  IF @ = None THEN <<"X">> ELSE @]
  /\ UNCHANGED <<temporal_score, severity, vector_string, parsed,
                 impact_sub_score, exploitability_sub_score, result,
                 asked, threads, heap, tables>>

CalculateBaseScore ==
  /\ "calculate_base_score" \notin called
  /\ base_score' = calculate_base_score(metrics)
  /\ called' = called \cup {"calculate_base_score"}
  /\ UNCHANGED <<metrics, temporal_score, severity, vector_string, parsed,
                 impact_sub_score, exploitability_sub_score, result,
                 asked, threads, heap, tables>>

CalculateTemporalScore ==
  /\ "calculate_temporal_score" \notin called
  /\ base_score.exc = ""
  /\ temporal_score' = calculate_temporal_score(base_score.val, metrics)
  /\ called' = called \cup {"calculate_temporal_score"}
  /\ UNCHANGED <<metrics, base_score, severity, vector_string, parsed,
                 impact_sub_score, exploitability_sub_score, result,
                 asked, threads, heap, tables>>

ScoreToSeverity ==
  /\ "score_to_severity" \notin called
  /\ base_score.exc = ""
  /\ severity' = score_to_severity(base_score.val)
  /\ called' = called \cup {"score_to_severity"}
  /\ UNCHANGED <<metrics, base_score, temporal_score, vector_string, parsed,
                 impact_sub_score, exploitability_sub_score, result,
                 asked, threads, heap, tables>>

GenerateVectorString ==
  /\ "generate_vector_string" \notin called
  /\ vector_string' = generate_vector_string(metrics)
  /\ called' = called \cup {"generate_vector_string"}
  /\ UNCHANGED <<metrics, base_score, temporal_score, severity, parsed,
                 impact_sub_score, exploitability_sub_score, result,
                 asked, threads, heap, tables>>

ParseVectorString ==
  /\ "parse_vector_string" \notin called
  /\ vector_string # None
  /\ parsed' = parse_vector_string(vector_string)
  /\ called' = called \cup {"parse_vector_string"}
  /\ UNCHANGED <<metrics, base_score, temporal_score, severity, vector_string,
                 impact_sub_score, exploitability_sub_score, result,
                 asked, threads, heap, tables>>

(***************************************************************************)
(* Base scoring of every valid vector, and the severity of the score.      *)
(***************************************************************************)
InitBase ==
  /\ metrics \in ValidBaseVectors
  /\ base_score = NotCalled
  /\ Idle

NextBase == CalculateBaseScore \/ ScoreToSeverity

SpecBase == InitBase /\ [][NextBase]_vars

(***************************************************************************)
(* Temporal scoring of every one-decimal base score under every temporal   *)
(* setting.                                                                *)
(***************************************************************************)
InitTemporal ==
  /\ metrics \in TemporalSettings
  /\ \E n \in 0..MaxTenths : base_score = Return(Tenth[n])
  /\ Idle

NextTemporal == CalculateTemporalScore

SpecTemporal == InitTemporal /\ [][NextTemporal]_vars

(***************************************************************************)
(* Classification of every score with at most two decimals.                *)
(***************************************************************************)
InitSeverity ==
  /\ metrics = CVSSMetrics
  /\ \E n \in (0 - SeverityMargin)..(10 * MaxTenths + SeverityMargin) :
       base_score = Return(FDivInt[n, 100])
  /\ Idle

NextSeverity == ScoreToSeverity

SpecSeverity == InitSeverity /\ [][NextSeverity]_vars

(***************************************************************************)
(* The codec: a vector is written as a vector string, and the string is    *)
(* parsed back.                                                            *)
(***************************************************************************)
InitCodec ==
  /\ metrics \in CodecVectors
  /\ base_score = NotCalled
  /\ Idle

NextCodec == GenerateVectorString \/ ParseVectorString

SpecCodec == InitCodec /\ [][NextCodec]_vars

(***************************************************************************)
(* The engine on vectors of any content: every scoring operation and the   *)
(* encoder.                                                                *)
(***************************************************************************)
InitVectors ==
  /\ metrics \in ProbeVectors
  /\ base_score = NotCalled
  /\ Idle

NextVectors ==
  \/ CalculateImpactSubscore
  \/ CalculateExploitabilitySubscore
  \/ CalculateBaseScore
  \/ CalculateTemporalScore
  \/ GenerateVectorString

SpecVectors == InitVectors /\ [][NextVectors]_vars

(***************************************************************************)
(* The two sub-score helpers on every valid vector.                        *)
(***************************************************************************)
InitSubscores ==
  /\ metrics \in ValidBaseVectors
  /\ base_score = NotCalled
  /\ Idle

NextSubscores == CalculateImpactSubscore \/ CalculateExploitabilitySubscore

SpecSubscores == InitSubscores /\ [][NextSubscores]_vars

(***************************************************************************)
(* The scoring and its helpers on vectors with codes of no table.          *)
(***************************************************************************)
InitLookup ==
  /\ metrics \in LookupVectors
  /\ base_score = NotCalled
  /\ Idle

NextLookup ==
  \/ CalculateImpactSubscore
  \/ CalculateExploitabilitySubscore
  \/ CalculateBaseScore

SpecLookup == InitLookup /\ [][NextLookup]_vars

(***************************************************************************)
(* Callers running the engine at the same time.  Each caller makes one     *)
(* call on a vector of its own; a call advances statement by statement,    *)
(* reading the class tables when the statement does, and the statements of *)
(* different callers interleave in any order.                              *)
(***************************************************************************)
sequential ==
  <<metrics, base_score, temporal_score, severity, vector_string, parsed,
    called, impact_sub_score, exploitability_sub_score, result, asked>>

\* The vectors the callers hold: one with every temporal metric set, one
\* without impact and without temporal metrics, one with a code of no table
CallVectors ==
  {[CVSSMetrics EXCEPT !.attack_vector = <<"P">>, !.scope = <<"C">>,
                       !.confidentiality = <<"H">>,
                       !.exploit_code_maturity = <<"F">>,
                       !.remediation_level = <<"O">>,
                       !.report_confidence = <<"R">>],
   CVSSMetrics,
   [CVSSMetrics EXCEPT !.attack_vector = <<"Z">>, !.integrity = <<"L">>]}

\* The strings given to the decoder and the scores given to the temporal
\* scoring and to the classifier
CallStrings ==
  {<<"A", "V", ":", "L", "/", "S", ":", "C">>,
   Prefix \o <<"E", ":", "F", "/", "/", "A", "V", ":", "Z">>}

CallScores == {FDivInt[73, 10], FromInt[10]}

\* The statements of _calculate_impact_subscore on the vector v, the weights
\* read in the table w
ImpactWith(w, v) ==
  IF \/ v.confidentiality \notin DOMAIN w.CIA
     \/ v.integrity \notin DOMAIN w.CIA
     \/ v.availability \notin DOMAIN w.CIA
  THEN Raise("KeyError")
  ELSE IF v.scope = <<"U">>
  THEN Return(FMul[Lit_6_42, IssBase(w.CIA[v.confidentiality],
                                     w.CIA[v.integrity],
                                     w.CIA[v.availability])])
  ELSE Return(IssChanged(IssBase(w.CIA[v.confidentiality],
                                 w.CIA[v.integrity],
                                 w.CIA[v.availability])))

\* The statements of _calculate_exploitability_subscore, likewise
ExploitabilityWith(w, v) ==
  IF \/ v.attack_vector \notin DOMAIN w.AV
     \/ v.attack_complexity \notin DOMAIN w.AC
     \/ v.scope \notin DOMAIN w.PR
     \/ v.privileges_required \notin DOMAIN w.PR[v.scope]
     \/ v.user_interaction \notin DOMAIN w.UI
  THEN Raise("KeyError")
  ELSE Return(FMul[FMul[FMul[FMul[Lit_8_22, w.AV[v.attack_vector]],
                             w.AC[v.attack_complexity]],
                        w.PR[v.scope][v.privileges_required]],
                   w.UI[v.user_interaction]])

\* A call that has not returned yet, and one that has ended with the outcome r
Running == [exc |-> "Running", val |-> FZero]

Ended(th, r) == [th EXCEPT !.pc = "done", !.ret = r]

\* The sub-score r of a call at hand: the call ends if it raised, else it
\* goes on to the statement next with the value kept in the local named by
\* the caller
AfterImpact(th, r) ==
  IF r.exc # "" THEN Ended(th, r)
  ELSE [th EXCEPT !.pc = "exploitability", !.impact_sub_score = r.val]

AfterExploitability(th, r) ==
  IF r.exc # "" THEN Ended(th, r)
  ELSE [th EXCEPT !.pc = "combine", !.exploitability_sub_score = r.val]

CallBaseScore(t) ==
  /\ threads[t].pc = "idle"
  /\ threads' = [threads EXCEPT ![t] =
                   [op |-> "calculate_base_score", pc |-> "impact",
                    metrics |-> t, impact_sub_score |-> FZero,
                    exploitability_sub_score |-> FZero, ret |-> Running]]
  /\ UNCHANGED <<heap, tables, sequential>>

BaseImpact(t) ==
  /\ threads[t].op = "calculate_base_score"
  /\ threads[t].pc = "impact"
  /\ threads' = [threads EXCEPT ![t] =
                   AfterImpact(@, ImpactWith(tables._weights, heap[@.metrics]))]
  /\ UNCHANGED <<heap, tables, sequential>>

BaseExploitability(t) ==
  /\ threads[t].op = "calculate_base_score"
  /\ threads[t].pc = "exploitability"
  /\ threads' = [threads EXCEPT ![t] =
                   AfterExploitability(
                     @, ExploitabilityWith(tables._weights, heap[@.metrics]))]
  /\ UNCHANGED <<heap, tables, sequential>>

BaseCombine(t) ==
  /\ threads[t].op = "calculate_base_score"
  /\ threads[t].pc = "combine"
  /\ threads' = [threads EXCEPT ![t] =
                   Ended(@, BaseScoreFrom(heap[@.metrics],
                                          Return(@.impact_sub_score),
                                          Return(@.exploitability_sub_score)))]
  /\ UNCHANGED <<heap, tables, sequential>>

CallTemporalScore(t) ==
  /\ threads[t].pc = "idle"
  /\ \E b \in CallScores :
       threads' = [threads EXCEPT ![t] =
                     [op |-> "calculate_temporal_score", pc |-> "test",
                      base_score |-> b, metrics |-> t, e_weight |-> FZero,
                      rl_weight |-> FZero, rc_weight |-> FZero, ret |-> Running]]
  /\ UNCHANGED <<heap, tables, sequential>>

TemporalTest(t) ==
  /\ threads[t].op = "calculate_temporal_score"
  /\ threads[t].pc = "test"
  /\ threads' = [threads EXCEPT ![t] =
                   IF \/ ~Truthy(heap[@.metrics].exploit_code_maturity)
                      \/ ~Truthy(heap[@.metrics].remediation_level)
                      \/ ~Truthy(heap[@.metrics].report_confidence)
                   THEN Ended(@, Return(@.base_score))
                   ELSE [@ EXCEPT !.pc = "weights"]]
  /\ UNCHANGED <<heap, tables, sequential>>

TemporalGetWeights(t) ==
  /\ threads[t].op = "calculate_temporal_score"
  /\ threads[t].pc = "weights"
  /\ threads' = [threads EXCEPT ![t] =
                   [@ EXCEPT !.pc = "round",
                             !.e_weight =
                               Get(tables._temporal_weights.E,
                                   heap[threads[t].metrics].exploit_code_maturity,
                                   One),
                             !.rl_weight =
                               Get(tables._temporal_weights.RL,
                                   heap[threads[t].metrics].remediation_level,
                                   One),
                             !.rc_weight =
                               Get(tables._temporal_weights.RC,
                                   heap[threads[t].metrics].report_confidence,
                                   One)]]
  /\ UNCHANGED <<heap, tables, sequential>>

TemporalRound(t) ==
  /\ threads[t].op = "calculate_temporal_score"
  /\ threads[t].pc = "round"
  /\ threads' = [threads EXCEPT ![t] =
                   Ended(@, Return(RoundTenth(
                     FMul[FMul[FMul[@.base_score, @.e_weight], @.rl_weight],
                          @.rc_weight])))]
  /\ UNCHANGED <<heap, tables, sequential>>

CallParse(t) ==
  /\ threads[t].pc = "idle"
  /\ \E str \in CallStrings :
       threads' = [threads EXCEPT ![t] =
                     [op |-> "parse_vector_string", pc |-> "construct",
                      vector_string |-> str, metrics |-> 0,
                      components |-> <<>>, i |-> 1, ret |-> Running]]
  /\ UNCHANGED <<heap, tables, sequential>>

\* A variant in which the decoder fills one vector kept by the class
ParseConstruct_Shared(t) ==
  /\ threads[t].op = "parse_vector_string"
  /\ threads[t].pc = "construct"
  /\ heap' = IF Len(heap) = Cardinality(Threads)
             THEN Append(heap, CVSSMetrics) ELSE heap
  /\ threads' = [threads EXCEPT ![t] =
                   [@ EXCEPT !.pc = "loop",
                             !.metrics = Cardinality(Threads) + 1,
                             !.components =
                               Split(StripPrefix(threads[t].vector_string), "/")]]
  /\ UNCHANGED <<tables, sequential>>

\* metrics = CVSSMetrics() makes a new object; the prefix is removed and the
\* string split
ParseConstruct(t) ==
  /\ threads[t].op = "parse_vector_string"
  /\ threads[t].pc = "construct"
  /\ heap' = Append(heap, CVSSMetrics)
  /\ threads' = [threads EXCEPT ![t] =
                   [@ EXCEPT !.pc = "loop", !.metrics = Len(heap) + 1,
                             !.components =
                               Split(StripPrefix(threads[t].vector_string), "/")]]
  /\ UNCHANGED <<tables, sequential>>

\* One pass of the loop, or the return once the components are exhausted
ParseLoop(t) ==
  /\ threads[t].op = "parse_vector_string"
  /\ threads[t].pc = "loop"
  /\ IF threads[t].i > Len(threads[t].components)
     THEN /\ threads' = [threads EXCEPT ![t] = Ended(@, Return(@.metrics))]
          /\ UNCHANGED heap
     ELSE /\ heap' = [heap EXCEPT ![threads[t].metrics] =
                        ParseComponent(@, threads[t].components[threads[t].i])]
          /\ threads' = [threads EXCEPT ![t] = [@ EXCEPT !.i = @ + 1]]
  /\ UNCHANGED <<tables, sequential>>

CallGenerate(t) ==
  /\ threads[t].pc = "idle"
  /\ threads' = [threads EXCEPT ![t] =
                   [op |-> "generate_vector_string", pc |-> "encode",
                    metrics |-> t, ret |-> Running]]
  /\ UNCHANGED <<heap, tables, sequential>>

GenerateEncode(t) ==
  /\ threads[t].op = "generate_vector_string"
  /\ threads[t].pc = "encode"
  /\ threads' = [threads EXCEPT ![t] =
                   Ended(@, Return(generate_vector_string(heap[@.metrics])))]
  /\ UNCHANGED <<heap, tables, sequential>>

CallSeverity(t) ==
  /\ threads[t].pc = "idle"
  /\ \E sc \in CallScores :
       threads' = [threads EXCEPT ![t] =
                     [op |-> "score_to_severity", pc |-> "classify",
                      score |-> sc, ret |-> Running]]
  /\ UNCHANGED <<heap, tables, sequential>>

SeverityClassify(t) ==
  /\ threads[t].op = "score_to_severity"
  /\ threads[t].pc = "classify"
  /\ threads' = [threads EXCEPT ![t] =
                   Ended(@, Return(score_to_severity(@.score)))]
  /\ UNCHANGED <<heap, tables, sequential>>

InitConcurrent ==
  /\ metrics = CVSSMetrics
  /\ base_score = NotCalled
  /\ vector_string = None
  /\ temporal_score = FZero
  /\ severity = ""
  /\ parsed = CVSSMetrics
  /\ called = {}
  /\ impact_sub_score = NotCalled
  /\ exploitability_sub_score = NotCalled
  /\ result = NoResult
  /\ asked = <<>>
  /\ threads = [t \in Threads |-> NoCall]
  /\ heap \in [1..Cardinality(Threads) -> CallVectors]
  /\ tables = ClassTables

NextConcurrent ==
  \E t \in Threads :
    \/ CallBaseScore(t)
    \/ BaseImpact(t)
    \/ BaseExploitability(t)
    \/ BaseCombine(t)
    \/ CallTemporalScore(t)
    \/ TemporalTest(t)
    \/ TemporalGetWeights(t)
    \/ TemporalRound(t)
    \/ CallParse(t)
    \/ ParseConstruct(t)
    \/ ParseLoop(t)
    \/ CallGenerate(t)
    \/ GenerateEncode(t)
    \/ CallSeverity(t)
    \/ SeverityClassify(t)

SpecConcurrent == InitConcurrent /\ [][NextConcurrent]_vars

(***************************************************************************)
(* The interactive calculator: the answers to its prompts are its inputs.  *)
(***************************************************************************)
\* The vector after the eight prompts; each answer is one of the choices.
PromptedMetrics(av, ac, pr, ui, s, c, i, a) ==
  [CVSSMetrics EXCEPT !.attack_vector = av, !.attack_complexity = ac,
                      !.privileges_required = pr, !.user_interaction = ui,
                      !.scope = s, !.confidentiality = c, !.integrity = i,
                      !.availability = a]

\* The dict returned for the prompted vector and its score; an exception of
\* the scoring propagates to the caller.
CalculatorResult(prompted, score) ==
  IF score.exc # "" THEN [NoResult EXCEPT !.exc = score.exc]
  ELSE [exc |-> "", score |-> score.val,
        vector |-> generate_vector_string(prompted),
        severity |-> score_to_severity(score.val), metrics |-> prompted]

\* A variant that encodes the vector before the prompts are answered
interactive_calculator_StaleVector(av, ac, pr, ui, s, c, i, a) ==
  [CalculatorResult(PromptedMetrics(av, ac, pr, ui, s, c, i, a),
                    calculate_base_score(
                      PromptedMetrics(av, ac, pr, ui, s, c, i, a)))
     EXCEPT !.vector = generate_vector_string(CVSSMetrics)]

interactive_calculator(av, ac, pr, ui, s, c, i, a) ==
  CalculatorResult(PromptedMetrics(av, ac, pr, ui, s, c, i, a),
                   calculate_base_score(
                     PromptedMetrics(av, ac, pr, ui, s, c, i, a)))

\* A variant that asks for the scope before the user interaction
Prompts_ScopeFirst ==
  << [metric |-> "AV", choices |-> _metric_options.AV, default |-> <<"N">>],
     [metric |-> "AC", choices |-> _metric_options.AC, default |-> <<"L">>],
     [metric |-> "PR", choices |-> _metric_options.PR, default |-> <<"N">>],
     [metric |-> "S", choices |-> _metric_options.S, default |-> <<"U">>],
     [metric |-> "UI", choices |-> _metric_options.UI, default |-> <<"N">>],
     [metric |-> "C", choices |-> _metric_options.C, default |-> <<"L">>],
     [metric |-> "I", choices |-> _metric_options.I, default |-> <<"L">>],
     [metric |-> "A", choices |-> _metric_options.A, default |-> <<"L">>] >>

\* The Prompt.ask calls of the calculator in the order they are made: each
\* returns one of its choices, the default standing for an empty answer.
Prompts ==
  << [metric |-> "AV", choices |-> _metric_options.AV, default |-> <<"N">>],
     [metric |-> "AC", choices |-> _metric_options.AC, default |-> <<"L">>],
     [metric |-> "PR", choices |-> _metric_options.PR, default |-> <<"N">>],
     [metric |-> "UI", choices |-> _metric_options.UI, default |-> <<"N">>],
     [metric |-> "S", choices |-> _metric_options.S, default |-> <<"U">>],
     [metric |-> "C", choices |-> _metric_options.C, default |-> <<"L">>],
     [metric |-> "I", choices |-> _metric_options.I, default |-> <<"L">>],
     [metric |-> "A", choices |-> _metric_options.A, default |-> <<"L">>] >>

InteractiveCalculator ==
  /\ "interactive_calculator" \notin called
  /\ \E av \in Prompts[1].choices, ac \in Prompts[2].choices,
        pr \in Prompts[3].choices, ui \in Prompts[4].choices,
        s \in Prompts[5].choices, c \in Prompts[6].choices,
        i \in Prompts[7].choices, a \in Prompts[8].choices :
       result' = interactive_calculator(av, ac, pr, ui, s, c, i, a)
  /\ asked' = Prompts
  /\ called' = called \cup {"interactive_calculator"}
  /\ UNCHANGED <<metrics, base_score, temporal_score, severity, vector_string,
                 parsed, impact_sub_score, exploitability_sub_score, threads,
                 heap, tables>>

InitInteractive ==
  /\ metrics = CVSSMetrics
  /\ base_score = NotCalled
  /\ Idle

NextInteractive == InteractiveCalculator

SpecInteractive == InitInteractive /\ [][NextInteractive]_vars

(***************************************************************************)
(* The decoder on strings of any shape.                                    *)
(***************************************************************************)
InitParse ==
  /\ metrics = CVSSMetrics
  /\ base_score = NotCalled
  /\ vector_string \in ParseInputs
  /\ Fresh

NextParse == ParseVectorString

SpecParse == InitParse /\ [][NextParse]_vars

(***************************************************************************)
(* Properties of base scoring, checked under SpecBase.                     *)
(***************************************************************************)
\* v is a float with one decimal: round(v * 10) / 10 gives v back
OneDecimal(v) == RoundTenth(v) = v

ImpactNone(v) ==
  /\ v.confidentiality = <<"N">>
  /\ v.integrity = <<"N">>
  /\ v.availability = <<"N">>

\* C1: for every valid metric vector calculate_base_score returns a value v
\* with 0.0 <= v <= 10.0 that is a multiple of 0.1.
C1_BaseScoreRange ==
  "calculate_base_score" \in called =>
    /\ base_score.exc = ""
    /\ FLe(FZero, base_score.val)
    /\ FLe(base_score.val, Ten)
    /\ OneDecimal(base_score.val)

\* A changed-scope vector with some impact has been scored, and the score is
\* the cap.
C1_Witness ==
  /\ "calculate_base_score" \in called
  /\ metrics.scope = <<"C">>
  /\ metrics.confidentiality = <<"L">>
  /\ base_score = Return(Ten)

\* AV:L/AC:H/PR:H/UI:R/S:U/C:L/I:N/A:N
LowScenario ==
  [CVSSMetrics EXCEPT !.attack_vector = <<"L">>, !.attack_complexity = <<"H">>,
                      !.privileges_required = <<"H">>,
                      !.user_interaction = <<"R">>, !.scope = <<"U">>,
                      !.confidentiality = <<"L">>, !.integrity = <<"N">>,
                      !.availability = <<"N">>]

\* C2: for AV:L/AC:H/PR:H/UI:R/S:U/C:L/I:N/A:N the base score lies between
\* 0.1 and 3.9 inclusive and its severity is "Low".
C2_LowScenario ==
  metrics = LowScenario =>
    /\ "calculate_base_score" \in called =>
         /\ base_score.exc = ""
         /\ FLe(Lit_0_1, base_score.val)
         /\ FLe(base_score.val, Lit_3_9)
    /\ "score_to_severity" \in called => severity = "Low"

\* AV:N/AC:L/PR:N/UI:N/S:U/C:H/I:H/A:H
CriticalScenario ==
  [CVSSMetrics EXCEPT !.attack_vector = <<"N">>, !.attack_complexity = <<"L">>,
                      !.privileges_required = <<"N">>,
                      !.user_interaction = <<"N">>, !.scope = <<"U">>,
                      !.confidentiality = <<"H">>, !.integrity = <<"H">>,
                      !.availability = <<"H">>]

\* C3: for AV:N/AC:L/PR:N/UI:N/S:U/C:H/I:H/A:H the base score is exactly 10.0
\* and its severity is "Critical".
C3_CriticalScenario ==
  metrics = CriticalScenario =>
    /\ "calculate_base_score" \in called => base_score = Return(Ten)
    /\ "score_to_severity" \in called => severity = "Critical"

\* The scenario vector has been scored and classified.
C3_Witness ==
  /\ metrics = CriticalScenario
  /\ "calculate_base_score" \in called
  /\ "score_to_severity" \in called

\* C4: whenever the Impact Sub-Score is <= 0 the base score is exactly 0.0,
\* whatever the Exploitability Sub-Score; every vector with C = I = A = N,
\* of either scope, scores 0.0 and is classified "None".
C4_ZeroImpact ==
  /\ ( /\ "calculate_base_score" \in called
       /\ FLe(_calculate_impact_subscore(metrics).val, FZero) )
       => base_score = Return(FZero)
  /\ ("calculate_base_score" \in called /\ ImpactNone(metrics))
       => base_score = Return(FZero)
  /\ ("score_to_severity" \in called /\ ImpactNone(metrics))
       => severity = "None"

\* A changed-scope vector without impact, whose Impact Sub-Score is negative,
\* has been scored and classified.
C4_Witness ==
  /\ ImpactNone(metrics)
  /\ metrics.scope = <<"C">>
  /\ metrics.attack_vector = <<"P">>
  /\ FLt(_calculate_impact_subscore(metrics).val, FZero)
  /\ "score_to_severity" \in called
  /\ severity = "None"

\* 7.52 * ISS + 0.44 * ESS, or 7.52 * (ISS + 0.18) + 0.44 * ESS under changed
\* scope: the score before the cap and the rounding
Unrounded(v, iss, ess) ==
  IF v.scope = <<"U">>
  THEN FAdd[FMul[Lit_7_52, iss], FMul[Lit_0_44, ess]]
  ELSE FAdd[FMul[Lit_7_52, FAdd[iss, Lit_0_18]], FMul[Lit_0_44, ess]]

\* C5: for every valid vector with Impact Sub-Score > 0 the base score equals
\* min(10, R(unrounded)), R rounding to the nearest tenth: rounding first and
\* capping second gives what the code's capping first and rounding second gives.
C5_RoundThenMin ==
  ( /\ "calculate_base_score" \in called
    /\ FLt(FZero, _calculate_impact_subscore(metrics).val) )
    => base_score =
         Return(Min10(RoundTenth(
           Unrounded(metrics, _calculate_impact_subscore(metrics).val,
                     _calculate_exploitability_subscore(metrics).val))))

\* An unchanged-scope vector with a positive Impact Sub-Score whose unrounded
\* score exceeds the cap has been scored.
C5_Witness ==
  /\ "calculate_base_score" \in called
  /\ metrics.scope = <<"U">>
  /\ FLt(FZero, _calculate_impact_subscore(metrics).val)
  /\ FLt(Ten, Unrounded(metrics, _calculate_impact_subscore(metrics).val,
                        _calculate_exploitability_subscore(metrics).val))

(***************************************************************************)
(* Properties of temporal scoring, checked under SpecTemporal.  The exact  *)
(* product of a base score n / 10 and three weights in hundredths is       *)
(* p / 10^7 for the integer p = n * E * RL * RC.                           *)
(***************************************************************************)
TemporalUnset(v) ==
  \/ v.exploit_code_maturity = None
  \/ v.remediation_level = None
  \/ v.report_confidence = None

\* The temporal weights in hundredths
Hundredths ==
  [E  |-> (<<"X">> :> 100) @@ (<<"H">> :> 100) @@ (<<"F">> :> 97) @@
          (<<"P">> :> 94) @@ (<<"U">> :> 91),
   RL |-> (<<"X">> :> 100) @@ (<<"U">> :> 100) @@ (<<"W">> :> 97) @@
          (<<"T">> :> 96) @@ (<<"O">> :> 95),
   RC |-> (<<"X">> :> 100) @@ (<<"C">> :> 100) @@ (<<"R">> :> 96) @@
          (<<"U">> :> 92)]

\* n for the one-decimal float n / 10
TenthsOf(x) == CHOOSE n \in DOMAIN Tenth : Tenth[n] = x

\* 10^7 * b * E * RL * RC for the base score b and the weights of v
Product(b, v) ==
  TenthsOf(b) * Hundredths.E[v.exploit_code_maturity]
              * Hundredths.RL[v.remediation_level]
              * Hundredths.RC[v.report_confidence]

\* C6: when at least one of the three temporal metrics is unset, the temporal
\* score is the base score unchanged; the metrics that are set have no effect.
C6_UnsetKeepsBase ==
  ("calculate_temporal_score" \in called /\ TemporalUnset(metrics))
    => temporal_score = base_score.val

\* A temporal score has been computed with only the exploit code maturity
\* unset, the two other metrics holding weights below 1.
C6_Witness ==
  /\ "calculate_temporal_score" \in called
  /\ metrics.exploit_code_maturity = None
  /\ metrics.remediation_level = <<"O">>
  /\ metrics.report_confidence = <<"U">>
  /\ base_score = Return(Tenth[50])
  /\ temporal_score = Tenth[50]

\* C7: with all three temporal metrics set to valid codes the temporal score
\* of a one-decimal base score b is b * E * RL * RC rounded to the nearest
\* tenth, under the documented weights: a tenth k / 10 at distance at most
\* 0.05 from the exact product.
C7_NearestTenth ==
  ("calculate_temporal_score" \in called /\ ~TemporalUnset(metrics))
    => \E k \in DOMAIN Tenth :
         /\ k * 1000000 - Product(base_score.val, metrics) <= 500000
         /\ Product(base_score.val, metrics) - k * 1000000 <= 500000
         /\ temporal_score = Tenth[k]

\* A temporal score below the base score has been computed from three weights
\* below 1.
C7_Witness ==
  /\ "calculate_temporal_score" \in called
  /\ metrics.exploit_code_maturity = <<"U">>
  /\ metrics.remediation_level = <<"O">>
  /\ metrics.report_confidence = <<"U">>
  /\ base_score = Return(Tenth[100])
  /\ temporal_score = Tenth[80]

\* C8: every score the engine produces is rounded UP to one decimal place: it
\* is the smallest multiple of 0.1 that is >= the unrounded value, not the
\* nearest one.
C8_RoundUp ==
  /\ ( /\ "calculate_base_score" \in called
       /\ FLt(FZero, _calculate_impact_subscore(metrics).val) )
       => \E k \in DOMAIN Tenth :
            /\ base_score = Return(Tenth[k])
            /\ FLe(Min10(Unrounded(metrics,
                                   _calculate_impact_subscore(metrics).val,
                                   _calculate_exploitability_subscore(metrics).val)),
                   Tenth[k])
            /\ \/ k = 0
               \/ FLt(Tenth[k - 1],
                      Min10(Unrounded(metrics,
                                      _calculate_impact_subscore(metrics).val,
                                      _calculate_exploitability_subscore(metrics).val)))
  /\ ("calculate_temporal_score" \in called /\ ~TemporalUnset(metrics))
       => \E k \in DOMAIN Tenth :
            /\ temporal_score = Tenth[k]
            /\ Product(base_score.val, metrics) <= k * 1000000
            /\ k * 1000000 - Product(base_score.val, metrics) < 1000000

(***************************************************************************)
(* Properties of the classifier, checked under SpecSeverity.               *)
(***************************************************************************)
\* The label the rating table gives the score k / 10
SeverityOfTenths(k) ==
  IF k = 0 THEN "None"
  ELSE IF k <= 39 THEN "Low"
  ELSE IF k <= 69 THEN "Medium"
  ELSE IF k <= 89 THEN "High"
  ELSE "Critical"

\* C9: for every one-decimal score s in 0.0..10.0, score_to_severity(s) is
\* "None" iff s = 0.0, "Low" iff 0.1 <= s <= 3.9, "Medium" iff 4.0 <= s <= 6.9,
\* "High" iff 7.0 <= s <= 8.9 and "Critical" iff 9.0 <= s <= 10.0.
C9_SeverityTable ==
  "score_to_severity" \in called =>
    \A k \in 0..100 :
      base_score.val = Tenth[k] => severity = SeverityOfTenths(k)

\* The score 3.9, the upper end of Low, has been classified.
C9_Witness ==
  /\ "score_to_severity" \in called
  /\ base_score = Return(Tenth[39])
  /\ severity = "Low"

(***************************************************************************)
(* The round trip of the codec, checked under SpecCodec.                   *)
(***************************************************************************)
\* C10: for every vector whose base metrics hold in-domain codes and whose
\* temporal metrics are all unset or all set to in-domain codes, parsing the
\* generated vector string gives the vector back, field by field.
C10_RoundTrip ==
  "parse_vector_string" \in called => parsed = metrics

\* A vector away from the defaults, with all three temporal metrics set, has
\* been written and read back.
C10_Witness ==
  /\ "parse_vector_string" \in called
  /\ metrics.attack_vector = <<"P">>
  /\ metrics.scope = <<"C">>
  /\ metrics.availability = <<"H">>
  /\ metrics.exploit_code_maturity = <<"P">>
  /\ metrics.remediation_level = <<"T">>
  /\ metrics.report_confidence = <<"R">>
  /\ parsed.report_confidence = <<"R">>

(***************************************************************************)
(* Properties of the encoder, checked under SpecVectors.                   *)
(***************************************************************************)
\* "CVSS:3.1/AV:x/AC:x/PR:x/UI:x/S:x/C:x/I:x/A:x" for the base metrics of v
BasePart(v) ==
  <<"C", "V", "S", "S", ":", "3", ".", "1">>
  \o <<"/", "A", "V", ":">> \o Format(v.attack_vector)
  \o <<"/", "A", "C", ":">> \o Format(v.attack_complexity)
  \o <<"/", "P", "R", ":">> \o Format(v.privileges_required)
  \o <<"/", "U", "I", ":">> \o Format(v.user_interaction)
  \o <<"/", "S", ":">> \o Format(v.scope)
  \o <<"/", "C", ":">> \o Format(v.confidentiality)
  \o <<"/", "I", ":">> \o Format(v.integrity)
  \o <<"/", "A", ":">> \o Format(v.availability)

\* The token "/key:x" of a temporal metric that is set, nothing otherwise
TemporalToken(key, x) == IF Truthy(x) THEN <<"/">> \o key \o <<":">> \o x ELSE <<>>

AnyTemporalSet(v) ==
  \/ Truthy(v.exploit_code_maturity)
  \/ Truthy(v.remediation_level)
  \/ Truthy(v.report_confidence)

\* The key of a token: what precedes its first ":"
TokenKey(token) == Split(token, ":")[1]

\* C11, as stated: the output is "CVSS:3.1/" and the eight base tokens in the
\* order AV, AC, PR, UI, S, C, I, A, followed, if any temporal metric is set,
\* by all three tokens E, RL, RC in that order, and by nothing otherwise.
C11_AllThreeTokens ==
  "generate_vector_string" \in called =>
    /\ StartsWith(vector_string, BasePart(metrics))
    /\ Len(Split(vector_string, "/")) = IF AnyTemporalSet(metrics) THEN 12 ELSE 9
    /\ AnyTemporalSet(metrics) =>
         /\ TokenKey(Split(vector_string, "/")[10]) = <<"E">>
         /\ TokenKey(Split(vector_string, "/")[11]) = <<"R", "L">>
         /\ TokenKey(Split(vector_string, "/")[12]) = <<"R", "C">>

\* C11, amended: the output is "CVSS:3.1/" and the eight base tokens in the
\* order AV, AC, PR, UI, S, C, I, A, followed by one token for each temporal
\* metric that is set (neither None nor empty), in the order E, RL, RC, and by
\* nothing else.
C11_TokenPerSetMetric ==
  "generate_vector_string" \in called =>
    vector_string =
      BasePart(metrics)
      \o TemporalToken(<<"E">>, metrics.exploit_code_maturity)
      \o TemporalToken(<<"R", "L">>, metrics.remediation_level)
      \o TemporalToken(<<"R", "C">>, metrics.report_confidence)

\* A vector with the remediation level alone set has been encoded: its string
\* ends with the RL token.
C11_Witness ==
  /\ "generate_vector_string" \in called
  /\ metrics.exploit_code_maturity = None
  /\ metrics.remediation_level = <<"O">>
  /\ metrics.report_confidence = None
  /\ metrics.attack_vector = <<"P">>
  /\ vector_string = BasePart(metrics) \o <<"/", "R", "L", ":", "O">>

(***************************************************************************)
(* Properties of the decoder, checked under SpecParse.                     *)
(***************************************************************************)
\* The field each recognised key names
KeyFields ==
  {<< <<"A", "V">>, "attack_vector" >>, << <<"A", "C">>, "attack_complexity" >>,
   << <<"P", "R">>, "privileges_required" >>,
   << <<"U", "I">>, "user_interaction" >>, << <<"S">>, "scope" >>,
   << <<"C">>, "confidentiality" >>, << <<"I">>, "integrity" >>,
   << <<"A">>, "availability" >>, << <<"E">>, "exploit_code_maturity" >>,
   << <<"R", "L">>, "remediation_level" >>,
   << <<"R", "C">>, "report_confidence" >>}

\* The positions of ":" in a token
Colons(token) == {i \in 1..Len(token) : token[i] = ":"}

\* A token is well formed when it holds exactly one ":"
WellFormed(token) == Cardinality(Colons(token)) = 1

ColonAt(token) == CHOOSE i \in Colons(token) : TRUE

\* The tokens of a vector string: what lies between the "/" after the prefix
Tokens(str) == Split(StripPrefix(str), "/")

\* The positions of the well-formed tokens of str with the given key
Naming(str, key) ==
  {i \in 1..Len(Tokens(str)) :
     /\ WellFormed(Tokens(str)[i])
     /\ SubSeq(Tokens(str)[i], 1, ColonAt(Tokens(str)[i]) - 1) = key}

Last(S) == CHOOSE i \in S : \A j \in S : j <= i

\* The value of the last well-formed token of str with the key, or the
\* default when no token names the key
Decoded(str, key, default) ==
  IF Naming(str, key) = {} THEN default
  ELSE SubSeq(Tokens(str)[Last(Naming(str, key))],
              ColonAt(Tokens(str)[Last(Naming(str, key))]) + 1,
              Len(Tokens(str)[Last(Naming(str, key))]))

\* C12: parse_vector_string returns a vector for every input string: tokens
\* with an unknown key are ignored, empty tokens and tokens without exactly
\* one ":" are skipped, and every field not named by a well-formed token with
\* a recognised key keeps the value of a freshly constructed vector.
C12_PermissiveParse ==
  "parse_vector_string" \in called =>
    /\ DOMAIN parsed = DOMAIN CVSSMetrics
    /\ \A kf \in KeyFields :
         parsed[kf[2]] = Decoded(vector_string, kf[1], CVSSMetrics[kf[2]])
    /\ \A f \in DOMAIN CVSSMetrics \ {kf[2] : kf \in KeyFields} :
         parsed[f] = CVSSMetrics[f]

\* A string with an unknown key, an empty token and a token with two colons
\* has been decoded: the vector is the fresh one.
C12_Witness ==
  /\ "parse_vector_string" \in called
  /\ vector_string = <<"X", "X", ":", "1", "/", "/", "A", ":", "B", ":", "C">>
  /\ parsed = CVSSMetrics

\* The codes each field may hold: the option codes of the base metrics and
\* the codes of the temporal weight tables
FieldDomain ==
  [attack_vector         |-> _metric_options.AV,
   attack_complexity     |-> _metric_options.AC,
   privileges_required   |-> _metric_options.PR,
   user_interaction      |-> _metric_options.UI,
   scope                 |-> _metric_options.S,
   confidentiality       |-> _metric_options.C,
   integrity             |-> _metric_options.I,
   availability          |-> _metric_options.A,
   exploit_code_maturity |-> DOMAIN _temporal_weights.E,
   remediation_level     |-> DOMAIN _temporal_weights.RL,
   report_confidence     |-> DOMAIN _temporal_weights.RC]

\* Every populated base or temporal field of v holds a code of its domain.
InDomain(v) ==
  \A f \in DOMAIN FieldDomain : v[f] = None \/ v[f] \in FieldDomain[f]

\* C13: a value outside its field's domain is rejected when it is assigned,
\* decoding included, so no vector the decoder returns has a populated field
\* holding an out-of-domain value.
C13_InDomain ==
  "parse_vector_string" \in called => InDomain(parsed)

(***************************************************************************)
(* Scoring a vector none of whose metrics was set, under SpecBase.         *)
(***************************************************************************)
\* C14: requesting the score of a freshly constructed vector, whose base
\* metrics were never set, raises IncompleteVector: the vector is not scored.
C14_IncompleteRaises ==
  (metrics = CVSSMetrics /\ "calculate_base_score" \in called) =>
    base_score.exc = "IncompleteVector"

(***************************************************************************)
(* Temporal codes of no table, under SpecVectors.                          *)
(***************************************************************************)
\* The three temporal metrics of v are populated.
TemporalPopulated(v) ==
  /\ Truthy(v.exploit_code_maturity)
  /\ Truthy(v.remediation_level)
  /\ Truthy(v.report_confidence)

\* One of the temporal metrics of v holds a code outside its domain.
TemporalInvalid(v) ==
  \/ v.exploit_code_maturity \notin FieldDomain.exploit_code_maturity
  \/ v.remediation_level \notin FieldDomain.remediation_level
  \/ v.report_confidence \notin FieldDomain.report_confidence

\* The weight of a temporal code with the weight 1 standing for a code of no
\* table
DefaultedWeight(table, code) ==
  IF code \in DOMAIN table THEN table[code] ELSE FromInt[1]

\* The score computed with the substituted default weights
DefaultedTemporal(b, v) ==
  RoundTenth(
    FMul[FMul[FMul[b, DefaultedWeight(_temporal_weights.E,
                                      v.exploit_code_maturity)],
              DefaultedWeight(_temporal_weights.RL, v.remediation_level)],
         DefaultedWeight(_temporal_weights.RC, v.report_confidence)])

\* C15: with the three temporal metrics populated and one of them holding a
\* code outside its domain, calculate_temporal_score does not return the score
\* computed with a default weight substituted for the invalid code.
C15_NoSilentDefault ==
  ( /\ "calculate_temporal_score" \in called
    /\ TemporalPopulated(metrics)
    /\ TemporalInvalid(metrics) ) =>
    temporal_score # DefaultedTemporal(base_score.val, metrics)

(***************************************************************************)
(* The result of the interactive calculator, under SpecInteractive.        *)
(***************************************************************************)
\* C16: the result returned by interactive_calculator is consistent: its
\* severity is score_to_severity of its score, its score is the score of its
\* metrics, its vector is generate_vector_string of its metrics, and the
\* vector decodes back to the metrics.
C16_ResultConsistent ==
  "interactive_calculator" \in called =>
    /\ result.exc = ""
    /\ result.severity = score_to_severity(result.score)
    /\ calculate_base_score(result.metrics) = Return(result.score)
    /\ result.vector = generate_vector_string(result.metrics)
    /\ parse_vector_string(result.vector) = result.metrics

\* The calculator has returned for the answers P, H, L, R, C, H, N, L.
C16_Witness ==
  /\ "interactive_calculator" \in called
  /\ result.exc = ""
  /\ result.vector = <<"C", "V", "S", "S", ":", "3", ".", "1", "/",
                       "A", "V", ":", "P", "/", "A", "C", ":", "H", "/",
                       "P", "R", ":", "L", "/", "U", "I", ":", "R", "/",
                       "S", ":", "C", "/", "C", ":", "H", "/",
                       "I", ":", "N", "/", "A", ":", "L">>
  /\ result.metrics.attack_vector = <<"P">>
  /\ result.severity = "Critical"

(***************************************************************************)
(* The sub-scores against exact rational arithmetic, under SpecSubscores.  *)
(***************************************************************************)
\* A float equals a real number when they differ by at most 2^-ToleranceBits:
\* far less than any two values of the formulas differ, far more than the
\* rounding of the floating-point operations.
ToleranceBits == 40

\* The mantissa and the binary scale of x as a fraction mant / 2^scale
Scale(x) == IF x.e < 0 THEN 0 - x.e ELSE 0

Mant(x) == IF x.e < 0 THEN x.m ELSE NShl[x.m, x.e]

\* |a - b| for naturals
NDist(a, b) == IF NCmp[a, b] < 0 THEN NSub[b, a] ELSE NSub[a, b]

\* |x - sgn * num / den| * den * 2^Scale(x), for sgn in {1, -1}
ScaledError(x, sgn, num, den) ==
  IF x.s = sgn \/ x.m = <<>> \/ num = <<>>
  THEN NDist(NMul[Mant(x), den], NShl[num, Scale(x)])
  ELSE NAdd[NMul[Mant(x), den], NShl[num, Scale(x)]]

\* The float x is the real number sgn * num / den.
IsReal(x, sgn, num, den) ==
  NCmp[NShl[ScaledError(x, sgn, num, den), ToleranceBits],
       NShl[den, Scale(x)]] <= 0

\* The weights of the exploitability metrics, in hundredths
AVHundredths ==
  (<<"N">> :> 85) @@ (<<"A">> :> 62) @@ (<<"L">> :> 55) @@ (<<"P">> :> 20)

ACHundredths == (<<"H">> :> 44) @@ (<<"L">> :> 77)

UIHundredths == (<<"N">> :> 85) @@ (<<"R">> :> 62)

PRHundredths ==
  (<<"U">> :> ((<<"N">> :> 85) @@ (<<"L">> :> 62) @@ (<<"H">> :> 27))) @@
  (<<"C">> :> ((<<"N">> :> 85) @@ (<<"L">> :> 68) @@ (<<"H">> :> 50)))

\* 822 * AV * AC * PR * UI in hundredths: the numerator of the exploitability
\* over 10^10
ExploitabilityNum(v) ==
  NMul[NFromInt[822 * AVHundredths[v.attack_vector]
                    * ACHundredths[v.attack_complexity]],
       NFromInt[PRHundredths[v.scope][v.privileges_required]
                * UIHundredths[v.user_interaction]]]

TenTo10 == NMul[NFromInt[100000], NFromInt[100000]]

OtherScope(s) == IF s = <<"U">> THEN <<"C">> ELSE <<"U">>

\* C17: for every valid vector _calculate_exploitability_subscore is
\* 8.22 * AV * AC * PR * UI with the weights of the tables, PR read in the
\* table of the vector's scope; where that weight is the same for both scopes
\* the result does not depend on the scope.
C17_Exploitability ==
  "_calculate_exploitability_subscore" \in called =>
    /\ exploitability_sub_score.exc = ""
    /\ IsReal(exploitability_sub_score.val, 1, ExploitabilityNum(metrics),
              TenTo10)
    /\ PRHundredths[metrics.scope][metrics.privileges_required]
         = PRHundredths[OtherScope(metrics.scope)][metrics.privileges_required]
       => _calculate_exploitability_subscore(
            [metrics EXCEPT !.scope = OtherScope(metrics.scope)])
          = exploitability_sub_score

\* The helper has returned for a changed-scope vector whose privileges weight
\* is the one of the changed-scope table.
C17_Witness ==
  /\ "_calculate_exploitability_subscore" \in called
  /\ metrics.scope = <<"C">>
  /\ metrics.privileges_required = <<"H">>
  /\ metrics.attack_vector = <<"P">>
  /\ metrics.attack_complexity = <<"H">>
  /\ metrics.user_interaction = <<"R">>
  /\ exploitability_sub_score.exc = ""
  /\ IsReal(exploitability_sub_score.val, 1, NFromInt[2242416], NFromInt[10000000])

\* The weights of the impact metrics, in hundredths
CIAHundredths == (<<"N">> :> 0) @@ (<<"L">> :> 22) @@ (<<"H">> :> 56)

\* ISS_base = 1 - (1 - C)(1 - I)(1 - A), in millionths
IssBaseMillionths(v) ==
  1000000 - (100 - CIAHundredths[v.confidentiality])
            * (100 - CIAHundredths[v.integrity])
            * (100 - CIAHundredths[v.availability])

TenTo8 == NFromInt[100000000]

TenTo84 == NPow[NFromInt[10], 84]

TenTo92 == NMul[TenTo84, TenTo8]

\* 7.52 * (ISS_base - 0.029) and 3.25 * (ISS_base - 0.02)^15 have the sign of
\* ISS_base - 0.029 on every valid vector; their magnitudes over 10^92 are
ChangedFirst(b) == NMul[NFromInt[752 * Abs(b - 29000)], TenTo84]

ChangedSecond(b) == NMulSmall[NPow[NFromInt[Abs(b - 20000)], 15], 325]

\* The impact as a fraction: sign, numerator and denominator
ImpactSign(v) ==
  IF v.scope = <<"U">> THEN 1 ELSE Sign(IssBaseMillionths(v) - 29000)

ImpactNum(v) ==
  IF v.scope = <<"U">> THEN NFromInt[642 * IssBaseMillionths(v)]
  ELSE NDist(ChangedFirst(IssBaseMillionths(v)),
             ChangedSecond(IssBaseMillionths(v)))

ImpactDen(v) == IF v.scope = <<"U">> THEN TenTo8 ELSE TenTo92

\* C18: for every valid vector _calculate_impact_subscore is 6.42 * ISS_base
\* for scope Unchanged and 7.52 * (ISS_base - 0.029) - 3.25 * (ISS_base -
\* 0.02)^15 for scope Changed, with ISS_base = 1 - (1-C)(1-I)(1-A) and the
\* weights N = 0, L = 0.22, H = 0.56; the value is not clamped: for scope
\* Changed with no impact it is strictly negative.
C18_Impact ==
  "_calculate_impact_subscore" \in called =>
    /\ impact_sub_score.exc = ""
    /\ IsReal(impact_sub_score.val, ImpactSign(metrics), ImpactNum(metrics),
              ImpactDen(metrics))
    /\ (metrics.scope = <<"C">> /\ ImpactNone(metrics)) =>
         (impact_sub_score.val.s = -1 /\ impact_sub_score.val.m # <<>>)

\* The helper has returned a negative value for a changed-scope vector with no
\* impact.
C18_Witness ==
  /\ "_calculate_impact_subscore" \in called
  /\ metrics.scope = <<"C">>
  /\ ImpactNone(metrics)
  /\ impact_sub_score.exc = ""
  /\ FLt(impact_sub_score.val, FZero)

(***************************************************************************)
(* Environmental metrics and purity, under SpecVectors.                    *)
(***************************************************************************)
\* C19: environmental fields have no effect: the results of
\* calculate_base_score, calculate_temporal_score and generate_vector_string
\* on a vector are their results on every vector that differs from it in
\* environmental fields only.
C19_EnvironmentalIgnored ==
  \A e \in ProbeEnvironmental :
    /\ "calculate_base_score" \in called =>
         base_score = calculate_base_score(WithEnvironmental(metrics, e))
    /\ "calculate_temporal_score" \in called =>
         temporal_score = calculate_temporal_score(
                            base_score.val, WithEnvironmental(metrics, e))
    /\ "generate_vector_string" \in called =>
         vector_string = generate_vector_string(WithEnvironmental(metrics, e))

\* A vector with no impact, every environmental metric set and the modified
\* impacts high has been scored 0.0 and encoded without environmental tokens.
C19_Witness ==
  /\ {"calculate_base_score", "calculate_temporal_score",
      "generate_vector_string"} \subseteq called
  /\ metrics.modified_confidentiality = <<"H">>
  /\ metrics.modified_scope = <<"C">>
  /\ metrics.confidentiality_req = <<"H">>
  /\ ImpactNone(metrics)
  /\ base_score = Return(FZero)
  /\ temporal_score = FZero
  /\ vector_string = BasePart(metrics)

\* C20: calculate_base_score, calculate_temporal_score, generate_vector_string
\* and the two sub-score helpers leave every field of the vector passed to
\* them unchanged, whether they return a value or raise.
C20_VectorUnchanged == [][metrics' = metrics]_vars

\* The scoring and the impact helper have raised on a vector with an unknown
\* confidentiality code, the exploitability helper and the encoder have
\* returned.
C20_Witness ==
  /\ {"calculate_base_score", "_calculate_impact_subscore",
      "_calculate_exploitability_subscore", "generate_vector_string"}
       \subseteq called
  /\ metrics.confidentiality = <<"Z">>
  /\ base_score.exc = "KeyError"
  /\ impact_sub_score.exc = "KeyError"
  /\ exploitability_sub_score.exc = ""
  /\ vector_string # None

(***************************************************************************)
(* Ties of the temporal rounding, under SpecTemporal.                      *)
(***************************************************************************)
\* The product of a one-decimal base score and the weights of v lies exactly
\* halfway between two tenths.
Tie(b, v) == Product(b, v) % 1000000 = 500000

\* C22: rounding ties go away from zero: whenever the unrounded temporal
\* score times 10 lies exactly halfway between two integers,
\* calculate_temporal_score returns the larger tenth.
C22_TiesAwayFromZero ==
  ( /\ "calculate_temporal_score" \in called
    /\ ~TemporalUnset(metrics)
    /\ Tie(base_score.val, metrics) ) =>
    temporal_score = Tenth[(Product(base_score.val, metrics) + 500000)
                             \div 1000000]

(***************************************************************************)
(* The prompts of the interactive calculator, under SpecInteractive.       *)
(***************************************************************************)
\* The eight base metrics in the order of the vector string, each with its
\* field and its enumerated codes
BaseMetrics ==
  << [metric |-> "AV", field |-> "attack_vector",
      codes |-> {<<"N">>, <<"A">>, <<"L">>, <<"P">>}],
     [metric |-> "AC", field |-> "attack_complexity",
      codes |-> {<<"L">>, <<"H">>}],
     [metric |-> "PR", field |-> "privileges_required",
      codes |-> {<<"N">>, <<"L">>, <<"H">>}],
     [metric |-> "UI", field |-> "user_interaction",
      codes |-> {<<"N">>, <<"R">>}],
     [metric |-> "S", field |-> "scope", codes |-> {<<"U">>, <<"C">>}],
     [metric |-> "C", field |-> "confidentiality",
      codes |-> {<<"N">>, <<"L">>, <<"H">>}],
     [metric |-> "I", field |-> "integrity",
      codes |-> {<<"N">>, <<"L">>, <<"H">>}],
     [metric |-> "A", field |-> "availability",
      codes |-> {<<"N">>, <<"L">>, <<"H">>}] >>

\* C23: interactive_calculator asks for the eight base metrics in the order
\* AV, AC, PR, UI, S, C, I, A, each prompt restricted to the metric's codes,
\* and scores the vector holding the eight answers: the scoring does not fail
\* with a lookup error, and the returned vector string is the eight base
\* tokens with no temporal token.
C23_PromptedInOrder ==
  "interactive_calculator" \in called =>
    /\ Len(asked) = Len(BaseMetrics)
    /\ \A k \in 1..Len(BaseMetrics) :
         /\ asked[k].metric = BaseMetrics[k].metric
         /\ asked[k].choices = BaseMetrics[k].codes
         /\ asked[k].default \in BaseMetrics[k].codes
         /\ result.metrics[BaseMetrics[k].field] \in BaseMetrics[k].codes
    /\ result.exc = ""
    /\ result.score \in {FZero, FromInt[10]}
    /\ result.vector = BasePart(result.metrics)
    /\ Len(Split(result.vector, "/")) = 1 + Len(BaseMetrics)

\* The calculator has returned for the default answer of every prompt.
C23_Witness ==
  /\ "interactive_calculator" \in called
  /\ Len(asked) = 8
  /\ \A k \in 1..8 : result.metrics[BaseMetrics[k].field] = asked[k].default
  /\ result.exc = ""
  /\ result.vector = BasePart(result.metrics)

(***************************************************************************)
(* The two base scores, under SpecBase.                                    *)
(***************************************************************************)
\* C24: for every valid vector calculate_base_score returns 0.0 when
\* C = I = A = N and 10.0 otherwise, whatever AV, AC, PR, UI and the scope:
\* 7.52 times the impact sub-score alone exceeds 10 as soon as an impact
\* metric is not N.
C24_ZeroOrTen ==
  "calculate_base_score" \in called =>
    /\ ImpactNone(metrics) => base_score = Return(FZero)
    /\ ~ImpactNone(metrics) =>
         /\ base_score = Return(FromInt[10])
         /\ FLt(FromInt[10],
                FMul[FDivInt[752, 100], _calculate_impact_subscore(metrics).val])

\* The vector with the lowest exploitability and a single low impact has been
\* scored 10.0.
C24_Witness ==
  /\ "calculate_base_score" \in called
  /\ metrics.attack_vector = <<"P">>
  /\ metrics.attack_complexity = <<"H">>
  /\ metrics.privileges_required = <<"H">>
  /\ metrics.user_interaction = <<"R">>
  /\ metrics.scope = <<"U">>
  /\ metrics.confidentiality = <<"N">>
  /\ metrics.integrity = <<"L">>
  /\ metrics.availability = <<"N">>
  /\ base_score = Return(FromInt[10])

(***************************************************************************)
(* Lookup errors of the scoring, under SpecLookup.                         *)
(***************************************************************************)
\* The eight base metrics of v hold codes of their domains.
BaseInDomain(v) ==
  \A k \in 1..Len(BaseMetrics) : v[BaseMetrics[k].field] \in BaseMetrics[k].codes

\* C25: calculate_base_score raises a lookup error, and returns no score, if
\* and only if one of the eight base metrics holds a value outside its domain,
\* also when C = I = A = N: both sub-scores are computed before the early exit.
C25_LookupError ==
  "calculate_base_score" \in called =>
    /\ base_score.exc \in {"", "KeyError"}
    /\ base_score.exc = "KeyError" <=> ~BaseInDomain(metrics)
    /\ base_score.exc = "" => base_score.val \in {FZero, FromInt[10]}

\* A vector without impact whose attack vector alone is outside its domain
\* has been given to the scoring, which raised.
C25_Witness ==
  /\ "calculate_base_score" \in called
  /\ ImpactNone(metrics)
  /\ metrics.attack_vector = <<"Z">>
  /\ \A k \in 2..Len(BaseMetrics) :
       metrics[BaseMetrics[k].field] \in BaseMetrics[k].codes
  /\ base_score.exc = "KeyError"

(***************************************************************************)
(* Temporal scores never exceed the base score, under SpecTemporal.        *)
(***************************************************************************)
\* The three temporal codes of v carry the weight 1.
WeightOne(v) ==
  /\ v.exploit_code_maturity \in {<<"X">>, <<"H">>}
  /\ v.remediation_level \in {<<"X">>, <<"U">>}
  /\ v.report_confidence \in {<<"X">>, <<"C">>}

\* C26: for every one-decimal base score b in 0.0..10.0 and every combination
\* of valid temporal codes, calculate_temporal_score(b, v) is a multiple of
\* 0.1 between 0.0 and b, and is b when the three codes carry the weight 1.
C26_NeverAboveBase ==
  ("calculate_temporal_score" \in called /\ ~TemporalUnset(metrics)) =>
    /\ \E k \in 0..TenthsOf(base_score.val) : temporal_score = Tenth[k]
    /\ WeightOne(metrics) => temporal_score = base_score.val

\* The base score 7.3 has been kept by three codes of weight 1 that are not
\* the codes X.
C26_Witness ==
  /\ "calculate_temporal_score" \in called
  /\ metrics.exploit_code_maturity = <<"H">>
  /\ metrics.remediation_level = <<"U">>
  /\ metrics.report_confidence = <<"C">>
  /\ base_score = Return(Tenth[73])
  /\ temporal_score = Tenth[73]

(***************************************************************************)
(* The order of the tokens, under SpecParse.                               *)
(***************************************************************************)
\* The tokens ts in the order p
Permuted(ts, p) == [k \in 1..Len(ts) |-> ts[p[k]]]

\* The key and the value of a well-formed token
KeyOf(token) == SubSeq(token, 1, ColonAt(token) - 1)

ValueOf(token) == SubSeq(token, ColonAt(token) + 1, Len(token))

\* The positions of the well-formed tokens of ts with the given key
NamingIn(ts, key) ==
  {k \in 1..Len(ts) : WellFormed(ts[k]) /\ KeyOf(ts[k]) = key}

\* No recognised key is named by two well-formed tokens of ts.
KeysOnce(ts) ==
  \A kf \in KeyFields : Cardinality(NamingIn(ts, kf[1])) <= 1

\* C27: parse_vector_string is last-write-wins: a field whose key is named by
\* several well-formed tokens holds the value of the last of them; and when
\* no recognised key is named twice, the tokens in any order decode to the
\* same vector.
C27_LastWriteWins ==
  "parse_vector_string" \in called =>
    LET ts == Tokens(vector_string)
    IN  /\ \A kf \in KeyFields :
             LET named == NamingIn(ts, kf[1])
             IN  Cardinality(named) > 1 =>
                   parsed[kf[2]] = ValueOf(ts[Last(named)])
        /\ KeysOnce(ts) =>
             \A p \in Permutations(1..Len(ts)) :
               parse_vector_string(Join(Permuted(ts, p), "/")) = parsed

\* "AV:Z/S:C/AV:L" has been decoded: the attack vector is the one of the last
\* token.
C27_Witness ==
  /\ "parse_vector_string" \in called
  /\ vector_string = <<"A", "V", ":", "Z", "/", "S", ":", "C", "/",
                       "A", "V", ":", "L">>
  /\ parsed.attack_vector = <<"L">>
  /\ parsed.scope = <<"C">>

(***************************************************************************)
(* The version prefix, under SpecParse.                                    *)
(***************************************************************************)
OtherVersion == <<"C", "V", "S", "S", ":", "3", ".", "0", "/">>

\* C28: the "CVSS:3.1/" prefix is optional and stripped at most once: a string
\* decodes to the same vector with the prefix put before it, and a different
\* or repeated version prefix is a token with an unknown key, which is
\* ignored.
C28_OptionalPrefix ==
  "parse_vector_string" \in called =>
    /\ parse_vector_string(Prefix \o vector_string) = parsed
    /\ parse_vector_string(OtherVersion \o vector_string) = parsed
    /\ parse_vector_string(Prefix \o Prefix \o vector_string) = parsed

\* "CVSS:3.1/CVSS:3.0/AV:L", a string with the prefix and a second version
\* token, has been decoded to the vector of "AV:L".
C28_Witness ==
  /\ "parse_vector_string" \in called
  /\ vector_string = Prefix \o OtherVersion \o <<"A", "V", ":", "L">>
  /\ parsed = [CVSSMetrics EXCEPT !.attack_vector = <<"L">>]

(***************************************************************************)
(* Decoding then encoding: the decoder on canonical strings and on the     *)
(* strings of SpecParse.                                                   *)
(***************************************************************************)
\* The canonical string of a vector: the prefix, the eight base tokens and a
\* token for each temporal metric that is set, in the order E, RL, RC
Canonical(v) ==
  BasePart(v)
  \o TemporalToken(<<"E">>, v.exploit_code_maturity)
  \o TemporalToken(<<"R", "L">>, v.remediation_level)
  \o TemporalToken(<<"R", "C">>, v.report_confidence)

\* The base vectors given temporal metrics: two attack vectors, both scopes,
\* two confidentiality impacts
TemporalBases ==
  {v \in BaseSample : /\ v.attack_vector \in {<<"N">>, <<"P">>}
                      /\ v.confidentiality \in {<<"N">>, <<"H">>}
                      /\ v.integrity = <<"L">>
                      /\ v.availability = <<"H">>}

\* The canonical strings: of every valid base vector, and of the sampled ones
\* with every subset of the temporal metrics set to every code
CanonicalStrings ==
  {Canonical(v) : v \in ValidBaseVectors} \cup
  {Canonical(WithTemporal(b, t)) : b \in TemporalBases, t \in TemporalSettings}

InitReencode ==
  /\ metrics = CVSSMetrics
  /\ base_score = NotCalled
  /\ vector_string \in CanonicalStrings \cup ParseInputs
  /\ Fresh

NextReencode == ParseVectorString

SpecReencode == InitReencode /\ [][NextReencode]_vars

\* C29: encoding the decoded vector of a canonical string gives the string
\* back; and for any string, decoding and encoding twice gives the same
\* string as decoding and encoding once.
C29_Reencode ==
  "parse_vector_string" \in called =>
    /\ vector_string \in CanonicalStrings =>
         generate_vector_string(parsed) = vector_string
    /\ generate_vector_string(
         parse_vector_string(generate_vector_string(parsed)))
       = generate_vector_string(parsed)

\* The canonical string "CVSS:3.1/AV:P/AC:L/PR:N/UI:N/S:C/C:H/I:L/A:H/RL:T",
\* with the remediation level alone among the temporal metrics, has been
\* decoded.
C29_Witness ==
  /\ "parse_vector_string" \in called
  /\ vector_string \in CanonicalStrings
  /\ parsed.attack_vector = <<"P">>
  /\ parsed.scope = <<"C">>
  /\ parsed.exploit_code_maturity = None
  /\ parsed.remediation_level = <<"T">>
  /\ parsed.report_confidence = None
  /\ generate_vector_string(parsed) = vector_string

(***************************************************************************)
(* The classifier outside its bands, under SpecSeverity.                   *)
(***************************************************************************)
\* n for the float n / 100
HundredthsOf(x) ==
  CHOOSE n \in (0 - SeverityMargin)..(10 * MaxTenths + SeverityMargin) :
    FDivInt[n, 100] = x

\* n / 100 is in one of the closed intervals [0.1, 3.9], [4.0, 6.9], [7.0, 8.9].
InBand(n) ==
  \/ 10 <= n /\ n <= 390
  \/ 400 <= n /\ n <= 690
  \/ 700 <= n /\ n <= 890

SameAsAlone(th, h) ==
  CASE th.op = "calculate_base_score" ->
         th.ret = calculate_base_score(h[th.metrics])
    [] th.op = "calculate_temporal_score" ->
         th.ret = Return(calculate_temporal_score(th.base_score, h[th.metrics]))
    [] th.op = "generate_vector_string" ->
         th.ret = Return(generate_vector_string(h[th.metrics]))
    [] th.op = "score_to_severity" ->
         th.ret = Return(score_to_severity(th.score))
    [] th.op = "parse_vector_string" ->
         /\ th.ret.exc = ""
         /\ h[th.ret.val] = parse_vector_string(th.vector_string)

\* The vector returned to caller t by the decoder is no caller's own vector
\* and not the vector any other call of the decoder works on.
FreshVector(t) ==
  /\ threads[t].ret.val \notin Threads
  /\ \A u \in Threads \ {t} :
       threads[u].op = "parse_vector_string" =>
         threads[u].metrics # threads[t].ret.val

\* C21: under any interleaving of calls made by different callers on separate
\* vectors, each call returns what it returns when made alone, the class
\* tables are never written, and each call of parse_vector_string returns a
\* new vector shared with no other call.
C21_Interleaving ==
  /\ tables = ClassTables
  /\ \A t \in Threads :
       threads[t].pc = "done" =>
         /\ SameAsAlone(threads[t], heap)
         /\ threads[t].op = "parse_vector_string" => FreshVector(t)

\* Two calls of the decoder on different strings have both returned, the
\* second caller having constructed its vector before the first.
C21_Witness ==
  /\ threads[1].pc = "done"
  /\ threads[2].pc = "done"
  /\ threads[1].op = "parse_vector_string"
  /\ threads[2].op = "parse_vector_string"
  /\ threads[1].vector_string # threads[2].vector_string
  /\ threads[1].ret = Return(4)
  /\ threads[2].ret = Return(3)
  /\ heap[4].attack_vector = <<"L">>
  /\ heap[3].attack_vector = <<"Z">>

=============================================================================
